---- MODULE Spec2Model ----
(***************************************************************************)
(* A model of the result caches of the NFL Trends API (app/cache.py), the  *)
(* handlers that use them (app/routers/upcoming_games.py,                  *)
(* app/routers/cache_management.py, app/startup.py) and the cache key      *)
(* generator.                                                              *)
(*                                                                         *)
(* upcoming_games_cache is a cachetools.TTLCache, weekly_trends_cache a    *)
(* cachetools.LRUCache.  Both are modelled as the sequence of their        *)
(* entries in the order cachetools keeps them (first = next to be popped). *)
(***************************************************************************)
EXTENDS Integers, Sequences, FiniteSets, TLC

(***************************************************************************)
(* Program constants.                                                      *)
(***************************************************************************)
\* TTLCache(maxsize=16, ttl=3600)
TtlMaxSize == 16
ttl == 3600

UPCOMING_GAMES_KEY == "upcoming_games_empty_body"
INITIAL_WEEKLY_TRENDS_KEY ==
    "0d0aeea50e84aae522b2f54ed54f14cd9f9b651b6cb50dd6aa873441282851e9"

\* What Optional[...] functions return for "not found", and the status of
\* the HTTPException the handlers raise.
None == "None"
HTTP_500 == "HTTP_500"

(***************************************************************************)
(* Bounds of the model.                                                    *)
(***************************************************************************)
\* Capacity of weekly_trends_cache.  The program builds LRUCache(maxsize=100);
\* the model keeps the algorithm and scales the capacity down.
LruMaxSize == 2
\* The clock (time.monotonic, in seconds) advances in steps of TickStep up to
\* MaxClock.
TickStep == 1800
MaxClock == 5400

\* Cached values: responses of the data store.
Vals == {"v1", "v2"}
\* Digests of other filter documents than the initial one.
OtherKeys == {"k1", "k2", "k3"}
WeeklyKeys == {INITIAL_WEEKLY_TRENDS_KEY} \cup OtherKeys

(***************************************************************************)
(* Sequence helpers.                                                       *)
(***************************************************************************)
RemoveAt(s, i) == SubSeq(s, 1, i - 1) \o SubSeq(s, i + 1, Len(s))

(***************************************************************************)
(* cachetools.LRUCache: a sequence of [k, v], least recently used first.   *)
(***************************************************************************)
LruKeys(c) == {c[i].k : i \in 1..Len(c)}

\* Cache.__contains__: no effect on the order.
LruContains(c, key) == key \in LruKeys(c)

LruIndex(c, key) == CHOOSE i \in 1..Len(c) : c[i].k = key

\* The value stored under a key the cache contains.
LruValue(c, key) == c[LruIndex(c, key)].v

\* LRUCache.__getitem__ of a present key: the key becomes the most recent.
LruTouch(c, key) == RemoveAt(c, LruIndex(c, key)) \o <<c[LruIndex(c, key)]>>

\* A popitem that drops the most recently used entry.
LruPopNewest(c) == SubSeq(c, 1, Len(c) - 1)

\* LRUCache.popitem: drops the least recently used entry.
LruPopItem(c) == Tail(c)

\* Cache.__setitem__ evicts with popitem while the cache is full.
RECURSIVE LruMakeRoom(_)
LruMakeRoom(c) == IF Len(c) + 1 > LruMaxSize THEN LruMakeRoom(LruPopItem(c)) ELSE c

\* A setitem that keeps the value of a present key (setdefault).
LruSetDefault(c, key, value) ==
    IF LruContains(c, key)
    THEN LruTouch(c, key)
    ELSE LruMakeRoom(c) \o <<[k |-> key, v |-> value]>>

\* LRUCache.__setitem__: a present key is overwritten and becomes the most
\* recent; for a new key room is made first.
LruSetItem(c, key, value) ==
    IF LruContains(c, key)
    THEN RemoveAt(c, LruIndex(c, key)) \o <<[k |-> key, v |-> value]>>
    ELSE LruMakeRoom(c) \o <<[k |-> key, v |-> value]>>

\* Cache.get: "if key in self: return self[key] else: return default".
LruGetResult(c, key) == IF LruContains(c, key) THEN LruValue(c, key) ELSE None

LruGetCache(c, key) == IF LruContains(c, key) THEN LruTouch(c, key) ELSE c

\* A clear that pops one entry only.
LruClearOnce(c) == IF c = <<>> THEN c ELSE LruPopItem(c)

\* MutableMapping.clear: popitem until the cache is empty.
RECURSIVE LruClear(_)
LruClear(c) == IF c = <<>> THEN c ELSE LruClear(LruPopItem(c))

(***************************************************************************)
(* cachetools.TTLCache: a sequence of [k, v, expires], oldest link first.  *)
(***************************************************************************)
\* An expiry test that is off by one: the entry still lives at its expiry time.
TtlLiveInclusive(e, time) == time <= e.expires

\* An entry is expired when "not (time < link.expires)".
TtlLive(e, time) == time < e.expires

\* TTLCache.__contains__
TtlContains(c, key, time) ==
    \E i \in 1..Len(c) : c[i].k = key /\ TtlLive(c[i], time)

TtlIndex(c, key) == CHOOSE i \in 1..Len(c) : c[i].k = key

\* TTLCache.expire: removes every expired entry.
TtlExpire(c, time) == SelectSeq(c, LAMBDA e : TtlLive(e, time))

RECURSIVE TtlMakeRoom(_)
TtlMakeRoom(c) == IF Len(c) + 1 > TtlMaxSize THEN TtlMakeRoom(Tail(c)) ELSE c

\* TTLCache.__setitem__: expire, store, link with expires = time + ttl at the
\* end of the list.
TtlSetItem(c, key, value, time) ==
    LET live == TtlExpire(c, time)
        e == [k |-> key, v |-> value, expires |-> time + ttl]
    IN  IF \E i \in 1..Len(live) : live[i].k = key
        THEN RemoveAt(live, TtlIndex(live, key)) \o <<e>>
        ELSE TtlMakeRoom(live) \o <<e>>

\* Cache.get on a TTLCache: an expired entry is "not in" the cache.
TtlGetResult(c, key, time) ==
    IF TtlContains(c, key, time) THEN c[TtlIndex(c, key)].v ELSE None

\* TTLCache.__getitem__ moves the link of a present key to the end.
TtlGetCache(c, key, time) ==
    IF TtlContains(c, key, time)
    THEN RemoveAt(c, TtlIndex(c, key)) \o <<c[TtlIndex(c, key)]>>
    ELSE c

\* TTLCache.clear: expire, then popitem until empty.
RECURSIVE TtlPopAll(_)
TtlPopAll(c) == IF c = <<>> THEN c ELSE TtlPopAll(Tail(c))

TtlClear(c, time) == TtlPopAll(TtlExpire(c, time))

(***************************************************************************)
(* Python values as json.dumps sees them.  A value is a record tagged     *)
(* with its type: a string, an integer, None, a list (a sequence of       *)
(* values) or a dict (the sequence of its <<key, value>> items in         *)
(* insertion order, no key twice).                                         *)
(***************************************************************************)
PyStr(s) == <<"str", s>>
PyInt(n) == <<"int", n>>
PyNone == <<"none", None>>
\* A float, held as ten times its value: PyFloat(35) is 3.5.
PyFloat(tenths) == <<"float", tenths>>
PyList(l) == <<"list", l>>
PyDict(items) == <<"dict", items>>

TypeOf(x) == x[1]
Payload(x) == x[2]

\* The keys of a dict, and d[name].
DictKeys(d) == {Payload(d)[i][1] : i \in 1..Len(Payload(d))}

DictValue(d, name) ==
    Payload(d)[CHOOSE i \in 1..Len(Payload(d)) : Payload(d)[i][1] = name][2]

\* The field names of the filter documents, in the order sort_keys=True
\* puts them (string comparison).
SortedFieldNames ==
    <<"category", "day_of_week", "exact", "field", "games", "games_applicable",
      "limit", "match_mode", "month", "offset", "or_less", "or_more", "order",
      "seasons", "since_or_earlier", "since_or_later", "sort_by", "spread",
      "total">>

KeyRank(name) == CHOOSE i \in 1..Len(SortedFieldNames) : SortedFieldNames[i] = name

\* Insertion of an item into a sequence of items sorted by key.
RECURSIVE InsertItem(_, _)
InsertItem(sorted, item) ==
    IF sorted = <<>> THEN <<item>>
    ELSE IF KeyRank(item[1]) < KeyRank(Head(sorted)[1])
         THEN <<item>> \o sorted
         ELSE <<Head(sorted)>> \o InsertItem(Tail(sorted), item)

\* sort_keys=True: the items of a dict sorted by key.
RECURSIVE SortItems(_)
SortItems(items) ==
    IF items = <<>> THEN <<>>
    ELSE InsertItem(SortItems(Tail(items)), Head(items))

\* A dump without sort_keys: the items as inserted.
DumpOrderAsInserted(items) == items

\* The order in which json.dumps(..., sort_keys=True) writes a dict's items.
DumpOrder(items) == SortItems(items)

\* The order in which json.dumps writes a list's elements: as they are.
DumpListOrder(l) == l

\* json.dumps(data, sort_keys=True, default=str): the text it writes.
RECURSIVE json_dumps(_), DumpElements(_), DumpItems(_)
json_dumps(x) ==
    CASE TypeOf(x) = "str" -> "\"" \o Payload(x) \o "\""
      [] TypeOf(x) = "int" -> ToString(Payload(x))
      [] TypeOf(x) = "none" -> "null"
      [] TypeOf(x) = "list" -> "[" \o DumpElements(DumpListOrder(Payload(x))) \o "]"
      [] TypeOf(x) = "dict" -> "{" \o DumpItems(DumpOrder(Payload(x))) \o "}"

DumpElements(l) ==
    IF l = <<>> THEN ""
    ELSE json_dumps(Head(l))
         \o (IF Tail(l) = <<>> THEN "" ELSE ", " \o DumpElements(Tail(l)))

DumpItems(items) ==
    IF items = <<>> THEN ""
    ELSE "\"" \o Head(items)[1] \o "\": " \o json_dumps(Head(items)[2])
         \o (IF Tail(items) = <<>> THEN "" ELSE ", " \o DumpItems(Tail(items)))

(***************************************************************************)
(* State.                                                                  *)
(***************************************************************************)
VARIABLES
    upcoming_games_cache,   \* the TTLCache of app/cache.py
    weekly_trends_cache,    \* the LRUCache of app/cache.py
    now,                    \* the reading of the cache timer
    started,                \* startup_cache_initialization has run
    last,                   \* the operation that ran last, with its result
    upcoming_put_at,        \* when upcoming_games_cache was last stored into
                            \* (-1: never)
    initial_pinned,         \* the value last put under INITIAL_WEEKLY_TRENDS_KEY
                            \* and not removed by a clear without preserve
    pc,                     \* per request thread: where it is in its function
    loc,                    \* per request thread: its local variables
    doc1, doc2,             \* two filter documents
    key1, key2,             \* their cache keys ("" before they are generated)
    games_table,            \* the rows of the games table
    trends_table,           \* the rows of the trends table
    qlast,                  \* the query that ran last, with its response
    email_subscriptions,    \* the rows of the email_subscriptions table
    utcnow,                 \* the reading of datetime.utcnow
    elast                   \* the subscription request that ran last, with
                            \* its response

cachevars == <<upcoming_games_cache, weekly_trends_cache, now, started, last,
               upcoming_put_at, initial_pinned>>

concvars == <<pc, loc>>

keyvars == <<doc1, doc2, key1, key2>>

queryvars == <<games_table, trends_table, qlast>>

emailvars == <<email_subscriptions, utcnow, elast>>

vars == <<cachevars, concvars, keyvars, queryvars, emailvars>>

\* What the handlers run one at a time, the request threads and the key
\* generator leave alone.
CacheOnly == UNCHANGED <<concvars, keyvars, queryvars, emailvars>>

ConcOnly ==
    UNCHANGED <<now, started, last, upcoming_put_at, initial_pinned, keyvars,
                queryvars, emailvars>>

KeyOnly == UNCHANGED <<cachevars, concvars, queryvars, emailvars>>

QueryOnly == UNCHANGED <<cachevars, concvars, keyvars, emailvars>>

EmailOnly == UNCHANGED <<cachevars, concvars, keyvars, queryvars>>

\* The record of an operation: its name, the weekly key it names ("" when
\* none), the value it stored or returned for upcoming_games_cache (val) and
\* for weekly_trends_cache (val2), a boolean (its argument, or a fact about
\* the state it ran in: for a put into weekly_trends_cache, that the key was
\* new and the cache full) and, for a clear, the number of entries the
\* cleared caches held when it began.
ClearOp(name, val, val2, flag, n) ==
    [op |-> name, key |-> "", val |-> val, val2 |-> val2, flag |-> flag, n |-> n]

Op(name, key, val, val2, flag) ==
    [op |-> name, key |-> key, val |-> val, val2 |-> val2, flag |-> flag, n |-> 0]

NoOp == Op("none", "", None, None, FALSE)

Record(o) == last' = o

\* The expiry interval has elapsed since the last store into
\* upcoming_games_cache.
Elapsed == upcoming_put_at >= 0 /\ now - upcoming_put_at >= ttl

(***************************************************************************)
(* app/cache.py, as functions of the cache (and the time) they act on.     *)
(***************************************************************************)
get_upcoming_games_from_cache(c, time) == TtlGetResult(c, UPCOMING_GAMES_KEY, time)

set_upcoming_games_cache(c, data, time) == TtlSetItem(c, UPCOMING_GAMES_KEY, data, time)

get_weekly_trends_from_cache(c, cache_key) == LruGetResult(c, cache_key)

set_weekly_trends_cache(c, cache_key, data) == LruSetItem(c, cache_key, data)

set_initial_weekly_trends_cache(c, data) == LruSetItem(c, INITIAL_WEEKLY_TRENDS_KEY, data)

get_initial_weekly_trends_from_cache(c) == LruGetResult(c, INITIAL_WEEKLY_TRENDS_KEY)

\* A clear that leaves the default entry where it is, expiry included.
clear_upcoming_games_cache_in_place(c, preserve_default, time) ==
    IF preserve_default /\ TtlContains(c, UPCOMING_GAMES_KEY, time)
    THEN <<c[TtlIndex(c, UPCOMING_GAMES_KEY)]>>
    ELSE TtlClear(c, time)

clear_upcoming_games_cache(c, preserve_default, time) ==
    IF preserve_default /\ TtlContains(c, UPCOMING_GAMES_KEY, time)
    THEN LET default_data == TtlGetResult(c, UPCOMING_GAMES_KEY, time)
         IN  TtlSetItem(TtlClear(TtlGetCache(c, UPCOMING_GAMES_KEY, time), time),
                        UPCOMING_GAMES_KEY, default_data, time)
    ELSE TtlClear(c, time)

\* A clear that forgets to store the saved entry again.
clear_weekly_trends_cache_no_restore(c, preserve_initial) == LruClear(c)

clear_weekly_trends_cache(c, preserve_initial) ==
    IF preserve_initial /\ LruContains(c, INITIAL_WEEKLY_TRENDS_KEY)
    THEN LET initial_data == LruValue(c, INITIAL_WEEKLY_TRENDS_KEY)
         IN  LruSetItem(LruClear(LruTouch(c, INITIAL_WEEKLY_TRENDS_KEY)),
                        INITIAL_WEEKLY_TRENDS_KEY, initial_data)
    ELSE LruClear(c)

\* len(cache) of get_cache_stats.
LruSize(c) == Len(c)

TtlSize(c, time) == Len(TtlExpire(c, time))

(***************************************************************************)
(* The cache key generator and the initial weekly-trends query.            *)
(***************************************************************************)
\* The upcoming_games table: the snapshots the data store may hold, each a
\* sequence of <<home_abbreviation, away_abbreviation>>.
Snapshots == {"week1", "week2"}

UpcomingGamesTable(snapshot) ==
    CASE snapshot = "week1" -> << <<"KC", "BUF">>, <<"DAL", "NYG">> >>
      [] snapshot = "week2" -> << <<"BUF", "KC">> >>

\* extract_games_from_upcoming_games: "HOMEABBREVvsAWAYABBREV" per game.
RECURSIVE extract_games_from_upcoming_games(_)
extract_games_from_upcoming_games(games) ==
    IF games = <<>> THEN <<>>
    ELSE (IF Head(games)[1] # "" /\ Head(games)[2] # ""
          THEN <<PyStr(Head(games)[1] \o "vs" \o Head(games)[2])>>
          ELSE <<>>)
         \o extract_games_from_upcoming_games(Tail(games))

\* initial_filter_data of startup_cache_initialization.  The long literal
\* lists (category, spread, total, seasons) are cut to their first elements.
initial_filter_data(current_games) ==
    PyDict(<<
      <<"category", PyList(<<PyStr("home ats"), PyStr("home outright")>>)>>,
      <<"month", PyList(<<PyStr("September"), PyStr("None")>>)>>,
      <<"day_of_week", PyList(<<PyStr("Sunday"), PyStr("None")>>)>>,
      <<"spread", PyDict(<< <<"exact", PyList(<<PyStr("None"), PyStr("1.5")>>)>>,
                            <<"or_less", PyList(<<PyInt(2), PyInt(3)>>)>>,
                            <<"or_more", PyList(<<PyInt(1), PyInt(2)>>)>> >>)>>,
      <<"total", PyDict(<< <<"exact", PyStr("None")>>,
                           <<"or_less", PyList(<<PyInt(40), PyInt(45)>>)>>,
                           <<"or_more", PyList(<<PyInt(30), PyInt(35)>>)>> >>)>>,
      <<"seasons", PyDict(<< <<"exact", PyList(<<PyStr("since 2006-2007")>>)>> >>)>>,
      <<"limit", PyInt(5000)>>,
      <<"offset", PyInt(0)>>,
      <<"sort_by", PyList(<<
          PyDict(<< <<"field", PyStr("win_percentage")>>, <<"order", PyStr("desc")>> >>),
          PyDict(<< <<"field", PyStr("total_games")>>, <<"order", PyStr("desc")>> >>) >>)>>,
      <<"games_applicable", PyDict(<< <<"games", PyList(current_games)>>,
                                      <<"match_mode", PyStr("contains_any")>> >>)>>
    >>)

\* WeeklyTrendFilter(**initial_filter_data).dict(): the validated filter keeps
\* the fields it was given, games_applicable among them.
WeeklyTrendFilterDict(data) == data

\* The snapshot whose initial filter document hashes to
\* INITIAL_WEEKLY_TRENDS_KEY: the fixed key was computed from one week's games.
ReferenceSnapshot == "week1"

\* hashlib.sha256(...).hexdigest(), taken to be injective: the digest of a
\* text is the text itself, marked, except for the one text whose digest the
\* program names.
sha256(text) ==
    IF text = json_dumps(WeeklyTrendFilterDict(initial_filter_data(
                  extract_games_from_upcoming_games(UpcomingGamesTable(ReferenceSnapshot)))))
    THEN INITIAL_WEEKLY_TRENDS_KEY
    ELSE "sha256(" \o text \o ")"

generate_cache_key(data) == sha256(json_dumps(data))

\* The key startup_cache_initialization stores the initial result under.
StartupCacheKey(snapshot) ==
    generate_cache_key(WeeklyTrendFilterDict(initial_filter_data(
        extract_games_from_upcoming_games(UpcomingGamesTable(snapshot)))))

(***************************************************************************)
(* The handlers, as functions of the cache they act on.                    *)
(***************************************************************************)
\* What the data store answers to a query: a snapshot, or a failure.
StoreError == "StoreError"
StoreAnswers == Snapshots \cup {StoreError}

\* A handler that caches a fallback response when the query fails.
StoreOnMissAlways(c, store, time) ==
    set_upcoming_games_cache(c, IF store = StoreError THEN "week1" ELSE store, time)

\* What get_upcoming_games leaves in the cache after the query of a miss: the
\* result is stored (line 70) only when the query did not raise.
StoreOnMiss(c, store, time) ==
    IF store = StoreError THEN c ELSE set_upcoming_games_cache(c, store, time)

\* get_upcoming_games: the cached response on a hit; on a miss the query,
\* whose result is cached and returned, or whose failure is raised as an
\* HTTPException(500).
get_upcoming_games(c, store, time) ==
    LET cached_data == get_upcoming_games_from_cache(c, time)
    IN  IF cached_data # None
        THEN [cache |-> TtlGetCache(c, UPCOMING_GAMES_KEY, time), resp |-> cached_data]
        ELSE [cache |-> StoreOnMiss(c, store, time),
              resp |-> IF store = StoreError THEN HTTP_500 ELSE store]

(***************************************************************************)
(* Actions: one per function of app/cache.py and per handler.              *)
(***************************************************************************)
CacheInit ==
    /\ upcoming_games_cache = <<>>
    /\ weekly_trends_cache = <<>>
    /\ now = 0
    /\ started = FALSE
    /\ last = NoOp
    /\ upcoming_put_at = -1
    /\ initial_pinned = None

\* The value put under INITIAL_WEEKLY_TRENDS_KEY by a put of key.
Pinned(key, data) == IF key = INITIAL_WEEKLY_TRENDS_KEY THEN data ELSE initial_pinned

\* startup_cache_initialization: runs once, before any request.  It may fail
\* at the first query (nothing is cached), after the upcoming games are
\* cached, or not at all.
Startup ==
    /\ CacheOnly
    /\ ~started
    /\ started' = TRUE
    /\ now' = now
    /\ \E store \in StoreAnswers, result \in Vals \cup {StoreError} :
         LET got == get_upcoming_games(upcoming_games_cache, store, now)
             cache_key == StartupCacheKey(store)
         IN  IF got.resp = HTTP_500
             THEN /\ upcoming_games_cache' = got.cache
                  /\ UNCHANGED <<weekly_trends_cache, initial_pinned, upcoming_put_at>>
                  /\ Record(Op("startup", "", None, None, FALSE))
             ELSE /\ upcoming_games_cache' =
                        set_upcoming_games_cache(got.cache, got.resp, now)
                  /\ upcoming_put_at' = now
                  /\ IF result = StoreError
                     THEN /\ UNCHANGED <<weekly_trends_cache, initial_pinned>>
                          /\ Record(Op("startup", "", got.resp, None, FALSE))
                     ELSE /\ weekly_trends_cache' =
                               set_weekly_trends_cache(weekly_trends_cache, cache_key, result)
                          /\ initial_pinned' = Pinned(cache_key, result)
                          /\ Record(Op("startup", cache_key, got.resp, result, TRUE))

\* Time passes.
Tick ==
    /\ CacheOnly
    /\ started
    /\ now + TickStep <= MaxClock
    /\ now' = now + TickStep
    /\ UNCHANGED <<upcoming_games_cache, weekly_trends_cache, started, last,
                   upcoming_put_at, initial_pinned>>

\* The record's flag: the expiry interval had elapsed when the get ran.
GetUpcomingGamesFromCache ==
    /\ CacheOnly
    /\ started
    /\ upcoming_games_cache' = TtlGetCache(upcoming_games_cache, UPCOMING_GAMES_KEY, now)
    /\ Record(Op("get_upcoming_games_from_cache", "",
                 get_upcoming_games_from_cache(upcoming_games_cache, now), None, Elapsed))
    /\ UNCHANGED <<weekly_trends_cache, now, started, upcoming_put_at, initial_pinned>>

SetUpcomingGamesCache ==
    /\ CacheOnly
    /\ started
    /\ \E data \in Snapshots :
         /\ upcoming_games_cache' = set_upcoming_games_cache(upcoming_games_cache, data, now)
         /\ Record(Op("set_upcoming_games_cache", "", data, None, FALSE))
    /\ upcoming_put_at' = now
    /\ UNCHANGED <<weekly_trends_cache, now, started, initial_pinned>>

GetWeeklyTrendsFromCache ==
    /\ CacheOnly
    /\ started
    /\ \E cache_key \in WeeklyKeys :
         /\ weekly_trends_cache' = LruGetCache(weekly_trends_cache, cache_key)
         /\ Record(Op("get_weekly_trends_from_cache", cache_key, None,
                      get_weekly_trends_from_cache(weekly_trends_cache, cache_key), FALSE))
    /\ UNCHANGED <<upcoming_games_cache, now, started, upcoming_put_at, initial_pinned>>

SetWeeklyTrendsCache ==
    /\ CacheOnly
    /\ started
    /\ \E cache_key \in WeeklyKeys, data \in Vals :
         /\ weekly_trends_cache' = set_weekly_trends_cache(weekly_trends_cache, cache_key, data)
         /\ initial_pinned' = Pinned(cache_key, data)
         /\ Record(Op("set_weekly_trends_cache", cache_key, None, data,
                      /\ ~LruContains(weekly_trends_cache, cache_key)
                      /\ LruSize(weekly_trends_cache) = LruMaxSize))
    /\ UNCHANGED <<upcoming_games_cache, now, started, upcoming_put_at>>

SetInitialWeeklyTrendsCache ==
    /\ CacheOnly
    /\ started
    /\ \E data \in Vals :
         /\ weekly_trends_cache' = set_initial_weekly_trends_cache(weekly_trends_cache, data)
         /\ initial_pinned' = data
         /\ Record(Op("set_initial_weekly_trends_cache", INITIAL_WEEKLY_TRENDS_KEY, None,
                      data,
                      /\ ~LruContains(weekly_trends_cache, INITIAL_WEEKLY_TRENDS_KEY)
                      /\ LruSize(weekly_trends_cache) = LruMaxSize))
    /\ UNCHANGED <<upcoming_games_cache, now, started, upcoming_put_at>>

GetInitialWeeklyTrendsFromCache ==
    /\ CacheOnly
    /\ started
    /\ weekly_trends_cache' = LruGetCache(weekly_trends_cache, INITIAL_WEEKLY_TRENDS_KEY)
    /\ Record(Op("get_initial_weekly_trends_from_cache", INITIAL_WEEKLY_TRENDS_KEY, None,
                 get_initial_weekly_trends_from_cache(weekly_trends_cache), FALSE))
    /\ UNCHANGED <<upcoming_games_cache, now, started, upcoming_put_at, initial_pinned>>

\* When a clear that preserves the default entry stores it again.
PutAtAfterClear(preserve_default) ==
    IF preserve_default /\ TtlContains(upcoming_games_cache, UPCOMING_GAMES_KEY, now)
    THEN now ELSE upcoming_put_at

\* clear_upcoming_games_cache_endpoint; the record keeps the value the
\* protected key held when the clear began.
ClearUpcomingGamesCache ==
    /\ CacheOnly
    /\ started
    /\ \E preserve_default \in BOOLEAN :
         /\ upcoming_games_cache' =
               clear_upcoming_games_cache(upcoming_games_cache, preserve_default, now)
         /\ upcoming_put_at' = PutAtAfterClear(preserve_default)
         /\ Record(ClearOp("clear_upcoming_games_cache",
                           get_upcoming_games_from_cache(upcoming_games_cache, now), None,
                           preserve_default, Len(upcoming_games_cache)))
    /\ UNCHANGED <<weekly_trends_cache, now, started, initial_pinned>>

\* clear_weekly_trends_cache_endpoint
ClearWeeklyTrendsCache ==
    /\ CacheOnly
    /\ started
    /\ \E preserve_initial \in BOOLEAN :
         /\ weekly_trends_cache' =
               clear_weekly_trends_cache(weekly_trends_cache, preserve_initial)
         /\ initial_pinned' = IF preserve_initial THEN initial_pinned ELSE None
         /\ Record(ClearOp("clear_weekly_trends_cache", None,
                           get_initial_weekly_trends_from_cache(weekly_trends_cache),
                           preserve_initial, Len(weekly_trends_cache)))
    /\ UNCHANGED <<upcoming_games_cache, now, started, upcoming_put_at>>

\* clear_all_caches_endpoint
ClearAllCaches ==
    /\ CacheOnly
    /\ started
    /\ \E preserve_protected \in BOOLEAN :
         /\ upcoming_games_cache' =
               clear_upcoming_games_cache(upcoming_games_cache, preserve_protected, now)
         /\ upcoming_put_at' = PutAtAfterClear(preserve_protected)
         /\ weekly_trends_cache' =
               clear_weekly_trends_cache(weekly_trends_cache, preserve_protected)
         /\ initial_pinned' = IF preserve_protected THEN initial_pinned ELSE None
         /\ Record(ClearOp("clear_all_caches",
                           get_upcoming_games_from_cache(upcoming_games_cache, now),
                           get_initial_weekly_trends_from_cache(weekly_trends_cache),
                           preserve_protected,
                           Len(upcoming_games_cache) + Len(weekly_trends_cache)))
    /\ UNCHANGED <<now, started>>

\* GET /upcoming-games; the record's flag: the request was a cache hit.
GetUpcomingGames ==
    /\ CacheOnly
    /\ started
    /\ \E store \in StoreAnswers :
         LET got == get_upcoming_games(upcoming_games_cache, store, now)
             hit == get_upcoming_games_from_cache(upcoming_games_cache, now) # None
         IN  /\ upcoming_games_cache' = got.cache
             /\ upcoming_put_at' = IF hit \/ store = StoreError THEN upcoming_put_at ELSE now
             /\ Record(Op("get_upcoming_games", "", got.resp, None, hit))
    /\ UNCHANGED <<weekly_trends_cache, now, started, initial_pinned>>

\* GET /cache/protected-entries: reads both protected entries.
GetProtectedEntries ==
    /\ CacheOnly
    /\ started
    /\ upcoming_games_cache' = TtlGetCache(upcoming_games_cache, UPCOMING_GAMES_KEY, now)
    /\ weekly_trends_cache' = LruGetCache(weekly_trends_cache, INITIAL_WEEKLY_TRENDS_KEY)
    /\ Record(Op("get_protected_entries", "",
                 get_upcoming_games_from_cache(upcoming_games_cache, now),
                 get_initial_weekly_trends_from_cache(weekly_trends_cache), FALSE))
    /\ UNCHANGED <<now, started, upcoming_put_at, initial_pinned>>

CacheNext ==
    \/ Startup
    \/ Tick
    \/ GetUpcomingGamesFromCache
    \/ SetUpcomingGamesCache
    \/ GetWeeklyTrendsFromCache
    \/ SetWeeklyTrendsCache
    \/ SetInitialWeeklyTrendsCache
    \/ GetInitialWeeklyTrendsFromCache
    \/ ClearUpcomingGamesCache
    \/ ClearWeeklyTrendsCache
    \/ ClearAllCaches
    \/ GetUpcomingGames
    \/ GetProtectedEntries

(***************************************************************************)
(* Request threads.  The clear endpoints and get_protected_entries are     *)
(* plain "def" handlers, which FastAPI runs on a thread pool; app/cache.py *)
(* takes no lock, so the statements of clear_*_cache, of Cache.get and a   *)
(* put interleave.  One thread clears with preserve, one reads a protected *)
(* key, one puts a protected key.                                          *)
(***************************************************************************)
Threads == {"clearer", "reader", "writer"}

CacheNames == {"upcoming", "weekly"}

KeyError == "KeyError"

NoLocals == [cache |-> "", data |-> None, ret |-> None, during |-> FALSE]

ConcIdle ==
    /\ pc = [t \in Threads |-> "idle"]
    /\ loc = [t \in Threads |-> NoLocals]

\* "KEY in cache" for the protected key of the named cache.
ProtectedContains(name) ==
    IF name = "upcoming"
    THEN TtlContains(upcoming_games_cache, UPCOMING_GAMES_KEY, now)
    ELSE LruContains(weekly_trends_cache, INITIAL_WEEKLY_TRENDS_KEY)

\* "cache[KEY]" for the protected key of the named cache.
ProtectedValue(name) ==
    IF name = "upcoming"
    THEN TtlGetResult(upcoming_games_cache, UPCOMING_GAMES_KEY, now)
    ELSE LruGetResult(weekly_trends_cache, INITIAL_WEEKLY_TRENDS_KEY)

\* The caches after "cache[KEY]" (the order update of __getitem__).
ProtectedTouch(name) ==
    IF name = "upcoming"
    THEN /\ upcoming_games_cache' =
              TtlGetCache(upcoming_games_cache, UPCOMING_GAMES_KEY, now)
         /\ UNCHANGED weekly_trends_cache
    ELSE /\ weekly_trends_cache' =
              LruGetCache(weekly_trends_cache, INITIAL_WEEKLY_TRENDS_KEY)
         /\ UNCHANGED upcoming_games_cache

\* The caches after "cache[KEY] = data".
ProtectedStore(name, data) ==
    IF name = "upcoming"
    THEN /\ upcoming_games_cache' = set_upcoming_games_cache(upcoming_games_cache, data, now)
         /\ UNCHANGED weekly_trends_cache
    ELSE /\ weekly_trends_cache' = set_initial_weekly_trends_cache(weekly_trends_cache, data)
         /\ UNCHANGED upcoming_games_cache

\* The caches after "cache.clear()".
CacheCleared(name) ==
    IF name = "upcoming"
    THEN /\ upcoming_games_cache' = TtlClear(upcoming_games_cache, now)
         /\ UNCHANGED weekly_trends_cache
    ELSE /\ weekly_trends_cache' = LruClear(weekly_trends_cache)
         /\ UNCHANGED upcoming_games_cache

Goto(t, label) == pc' = [pc EXCEPT ![t] = label]

\* clear_*_cache(preserve=True) is called.
ClearBegin ==
    /\ ConcOnly
    /\ pc["clearer"] = "idle"
    /\ \E name \in CacheNames :
         loc' = [loc EXCEPT !["clearer"] = [NoLocals EXCEPT !.cache = name]]
    /\ Goto("clearer", "check")
    /\ UNCHANGED <<upcoming_games_cache, weekly_trends_cache>>

\* "if preserve and KEY in cache:"
ClearCheck ==
    /\ ConcOnly
    /\ pc["clearer"] = "check"
    /\ Goto("clearer", IF ProtectedContains(loc["clearer"].cache) THEN "read" ELSE "clear_only")
    /\ UNCHANGED <<upcoming_games_cache, weekly_trends_cache, loc>>

\* "data = cache[KEY]": a KeyError when the key is gone ends the request.
ClearRead ==
    /\ ConcOnly
    /\ pc["clearer"] = "read"
    /\ IF ProtectedContains(loc["clearer"].cache)
       THEN /\ loc' = [loc EXCEPT !["clearer"].data = ProtectedValue(loc["clearer"].cache)]
            /\ ProtectedTouch(loc["clearer"].cache)
            /\ Goto("clearer", "clear")
       ELSE /\ loc' = [loc EXCEPT !["clearer"] = NoLocals]
            /\ UNCHANGED <<upcoming_games_cache, weekly_trends_cache>>
            /\ Goto("clearer", "idle")

\* "cache.clear()" of the preserving branch.
ClearClear ==
    /\ ConcOnly
    /\ pc["clearer"] = "clear"
    /\ CacheCleared(loc["clearer"].cache)
    /\ Goto("clearer", "restore")
    /\ UNCHANGED loc

\* "cache[KEY] = data"
ClearRestore ==
    /\ ConcOnly
    /\ pc["clearer"] = "restore"
    /\ ProtectedStore(loc["clearer"].cache, loc["clearer"].data)
    /\ loc' = [loc EXCEPT !["clearer"] = NoLocals]
    /\ Goto("clearer", "idle")

\* "cache.clear()" of the else branch.
ClearOnly ==
    /\ ConcOnly
    /\ pc["clearer"] = "clear_only"
    /\ CacheCleared(loc["clearer"].cache)
    /\ loc' = [loc EXCEPT !["clearer"] = NoLocals]
    /\ Goto("clearer", "idle")

\* The clearer is between the test that found the protected key of the named
\* cache and the statement that stores it again.
ClearInProgress(name) ==
    /\ pc["clearer"] \in {"read", "clear", "restore"}
    /\ loc["clearer"].cache = name

\* get_*_from_cache of a protected key is called: Cache.get tests
\* "key in self" and returns the default when it is not.  "during" notes that
\* the get began while a preserving clear of that cache was in progress.
ReadContains ==
    /\ ConcOnly
    /\ pc["reader"] = "idle"
    /\ \E name \in CacheNames :
         IF ProtectedContains(name)
         THEN /\ loc' = [loc EXCEPT !["reader"] =
                           [NoLocals EXCEPT !.cache = name, !.during = ClearInProgress(name)]]
              /\ Goto("reader", "getitem")
         ELSE /\ loc' = [loc EXCEPT !["reader"] =
                           [NoLocals EXCEPT !.cache = name, !.ret = None,
                                            !.during = ClearInProgress(name)]]
              /\ Goto("reader", "done")
    /\ UNCHANGED <<upcoming_games_cache, weekly_trends_cache>>

\* "return self[key]": a KeyError when the key has gone since the test.
ReadGetItem ==
    /\ ConcOnly
    /\ pc["reader"] = "getitem"
    /\ IF ProtectedContains(loc["reader"].cache)
       THEN /\ loc' = [loc EXCEPT !["reader"].ret = ProtectedValue(loc["reader"].cache)]
            /\ ProtectedTouch(loc["reader"].cache)
       ELSE /\ loc' = [loc EXCEPT !["reader"].ret = KeyError]
            /\ UNCHANGED <<upcoming_games_cache, weekly_trends_cache>>
    /\ Goto("reader", "done")

\* The reader's request ends.
ReadReturn ==
    /\ ConcOnly
    /\ pc["reader"] = "done"
    /\ loc' = [loc EXCEPT !["reader"] = NoLocals]
    /\ Goto("reader", "idle")
    /\ UNCHANGED <<upcoming_games_cache, weekly_trends_cache>>

\* set_upcoming_games_cache / set_initial_weekly_trends_cache in a third
\* thread.  The writer's locals keep its last put: the cache, the data, and
\* in "during" that a preserving clear of that cache was in progress.
WriteProtected ==
    /\ ConcOnly
    /\ pc["writer"] = "idle"
    /\ \E name \in CacheNames :
         \E data \in (IF name = "upcoming" THEN Snapshots ELSE Vals) :
            /\ ProtectedStore(name, data)
            /\ loc' = [loc EXCEPT !["writer"] =
                         [NoLocals EXCEPT !.cache = name, !.data = data,
                                          !.during = ClearInProgress(name)]]
    /\ UNCHANGED pc

ConcNext ==
    \/ ClearBegin
    \/ ClearCheck
    \/ ClearRead
    \/ ClearClear
    \/ ClearRestore
    \/ ClearOnly
    \/ ReadContains
    \/ ReadGetItem
    \/ ReadReturn
    \/ WriteProtected

(***************************************************************************)
(* The key generator applied to two filter documents.                      *)
(***************************************************************************)
\* The most fields a document has.
MaxFields == 3

CategoryValues ==
    {PyStr("over"),
     PyList(<<PyStr("over")>>),
     PyList(<<PyStr("over"), PyStr("under")>>),
     PyList(<<PyStr("under"), PyStr("over")>>)}

SpreadValues ==
    {PyDict(<< <<"exact", PyList(<<PyStr("None"), PyStr("3.0")>>)>>, <<"or_less", PyInt(3)>> >>),
     PyDict(<< <<"or_less", PyInt(3)>>, <<"exact", PyList(<<PyStr("None"), PyStr("3.0")>>)>> >>),
     PyDict(<< <<"or_less", PyInt(3)>>, <<"exact", PyList(<<PyStr("3.0"), PyStr("None")>>)>> >>)}

LimitValues == {PyInt(1), PyNone}

FieldItems ==
    {<<"category", v>> : v \in CategoryValues}
      \cup {<<"spread", v>> : v \in SpreadValues}
      \cup {<<"limit", v>> : v \in LimitValues}

\* The documents: every sequence of at most MaxFields items with no key twice.
Docs ==
    {PyDict(items) : items \in
        {s \in UNION {[1..n -> FieldItems] : n \in 1..MaxFields} :
            \A i, j \in 1..Len(s) : i # j => s[i][1] # s[j][1]}}

KeyIdle ==
    /\ doc1 = PyNone
    /\ doc2 = PyNone
    /\ key1 = ""
    /\ key2 = ""

KeyDraw ==
    /\ doc1 \in Docs
    /\ doc2 \in Docs
    /\ key1 = ""
    /\ key2 = ""

GenerateKey1 ==
    /\ KeyOnly
    /\ key1 = ""
    /\ key1' = generate_cache_key(doc1)
    /\ UNCHANGED <<doc1, doc2, key2>>

GenerateKey2 ==
    /\ KeyOnly
    /\ key2 = ""
    /\ key2' = generate_cache_key(doc2)
    /\ UNCHANGED <<doc1, doc2, key1>>

KeyNext ==
    \/ GenerateKey1
    \/ GenerateKey2

(***************************************************************************)
(* The games and trends queries (app/routers/games.py, trends.py).         *)
(*                                                                         *)
(* SQL conditions are three-valued: a comparison with NULL is unknown, and *)
(* WHERE keeps the rows whose condition is true.                           *)
(***************************************************************************)
\* SQL NULL in a text column.
NULL == "NULL"

SqlTrue == "true"
SqlFalse == "false"
SqlUnknown == "unknown"

Sql(b) == IF b THEN SqlTrue ELSE SqlFalse

and_(a, b) ==
    IF a = SqlFalse \/ b = SqlFalse THEN SqlFalse
    ELSE IF a = SqlTrue /\ b = SqlTrue THEN SqlTrue
    ELSE SqlUnknown

or_(a, b) ==
    IF a = SqlTrue \/ b = SqlTrue THEN SqlTrue
    ELSE IF a = SqlFalse /\ b = SqlFalse THEN SqlFalse
    ELSE SqlUnknown

\* or_(*clauses) of a non-empty list of clauses.
RECURSIVE OrAll(_)
OrAll(clauses) ==
    IF Len(clauses) = 1 THEN Head(clauses)
    ELSE or_(Head(clauses), OrAll(Tail(clauses)))

\* query.filter(*filters_list): the conjunction of the fragments.
RECURSIVE AndAll(_)
AndAll(fragments) ==
    IF fragments = <<>> THEN SqlTrue
    ELSE and_(Head(fragments), AndAll(Tail(fragments)))

\* column == value
Eq(col, value) == IF col = NULL THEN SqlUnknown ELSE Sql(col = value)

\* column.in_(values), values a non-empty set
In(col, values) == IF col = NULL THEN SqlUnknown ELSE Sql(col \in values)

\* column.is_(None), column == None
IsNull(col) == Sql(col = NULL)

\* column != None
IsNotNull(col) == Sql(col # NULL)

\* Comparisons of the month CASE expression, which is never NULL.
Ge(x, n) == Sql(x >= n)

Le(x, n) == Sql(x <= n)

\* A range that wraps around the end of the year when lo is after hi.
BetweenWrapping(x, lo, hi) ==
    IF lo <= hi THEN and_(Ge(x, lo), Le(x, hi)) ELSE or_(Ge(x, lo), Le(x, hi))

\* x.between(lo, hi)
Between(x, lo, hi) == and_(Ge(x, lo), Le(x, hi))

MONTH_MAPPING ==
    [m \in {"January", "February", "March", "April", "May", "June", "July",
            "August", "September", "October", "November", "December"} |->
       CASE m = "January" -> 1 [] m = "February" -> 2 [] m = "March" -> 3
         [] m = "April" -> 4 [] m = "May" -> 5 [] m = "June" -> 6
         [] m = "July" -> 7 [] m = "August" -> 8 [] m = "September" -> 9
         [] m = "October" -> 10 [] m = "November" -> 11 [] m = "December" -> 12]

\* The month CASE of the filters: the ordinal of the WHEN whose comparison is
\* true, else_=0 (a NULL month makes every comparison unknown).
month_case(month) ==
    IF Eq(month, "January") = SqlTrue THEN 1
    ELSE IF Eq(month, "February") = SqlTrue THEN 2
    ELSE IF Eq(month, "March") = SqlTrue THEN 3
    ELSE IF Eq(month, "April") = SqlTrue THEN 4
    ELSE IF Eq(month, "May") = SqlTrue THEN 5
    ELSE IF Eq(month, "June") = SqlTrue THEN 6
    ELSE IF Eq(month, "July") = SqlTrue THEN 7
    ELSE IF Eq(month, "August") = SqlTrue THEN 8
    ELSE IF Eq(month, "September") = SqlTrue THEN 9
    ELSE IF Eq(month, "October") = SqlTrue THEN 10
    ELSE IF Eq(month, "November") = SqlTrue THEN 11
    ELSE IF Eq(month, "December") = SqlTrue THEN 12
    ELSE 0

\* The month CASE of the sorting: NULL is 13, anything else 14.
month_sort_case(month) ==
    IF month_case(month) # 0 THEN month_case(month)
    ELSE IF IsNull(month) = SqlTrue THEN 13
    ELSE 14

\* A request field that was not sent (the Field default applies), as opposed
\* to one sent as null.
Absent == <<"absent", None>>

\* Python truthiness of a request value.
Truthy(x) ==
    CASE TypeOf(x) \in {"none", "absent"} -> FALSE
      [] TypeOf(x) = "str" -> Payload(x) # ""
      [] TypeOf(x) \in {"int", "float"} -> Payload(x) # 0
      [] TypeOf(x) \in {"list", "dict"} -> Payload(x) # <<>>

\* The strings of a list of strings.
Strings(l) == {Payload(l[i]) : i \in 1..Len(l)}

\* The most rows a table holds.
MaxRows == 3

\* Rows of the games table: the columns the modelled filters and sorts read;
\* spread in tenths.
GameRows ==
    {[id_string |-> "CHINYJ20240107", date |-> "2024-01-07", month |-> "January",
      home_team |-> "Chicago Bears", away_team |-> "New York Jets",
      home_abbreviation |-> "CHI", away_abbreviation |-> "NYJ",
      home_score |-> 0, spread |-> 0, home_spread_result |-> 0],
     [id_string |-> "NYJCHI20241110", date |-> "2024-11-10", month |-> "November",
      home_team |-> "New York Jets", away_team |-> "Chicago Bears",
      home_abbreviation |-> "NYJ", away_abbreviation |-> "CHI",
      home_score |-> 21, spread |-> 35, home_spread_result |-> 5],
     [id_string |-> "CHIBUF20250209", date |-> "2025-02-09", month |-> "February",
      home_team |-> "Chicago Bears", away_team |-> "Buffalo Bills",
      home_abbreviation |-> "CHI", away_abbreviation |-> "BUF",
      home_score |-> 7, spread |-> 30, home_spread_result |-> -3],
     [id_string |-> "BUFNYJ20241110", date |-> "2024-11-10", month |-> NULL,
      home_team |-> "Buffalo Bills", away_team |-> "New York Jets",
      home_abbreviation |-> "BUF", away_abbreviation |-> "NYJ",
      home_score |-> 30, spread |-> 70, home_spread_result |-> 7]}

\* Rows of the trends table; win_percentage in thousandths.
TrendRows ==
    {[id_string |-> "home ats,January", month |-> "January", spread |-> "3.0",
      total |-> NULL, win_percentage |-> 600, total_games |-> 10,
      category |-> "home ats", seasons |-> "since 2006-2007"],
     [id_string |-> "home ats,November", month |-> "November", spread |-> NULL,
      total |-> "45 or more", win_percentage |-> 600, total_games |-> 10,
      category |-> "home ats", seasons |-> "since 2015-2016"],
     [id_string |-> "home ats,February", month |-> "February", spread |-> "7.0",
      total |-> "40 or less", win_percentage |-> 750, total_games |-> 4,
      category |-> "home ats", seasons |-> "since 2024-2025"],
     [id_string |-> "home ats,None", month |-> NULL, spread |-> "3 or less",
      total |-> "45 or more", win_percentage |-> 600, total_games |-> 20,
      category |-> "home ats", seasons |-> "since 2020-2021"]}

GameTables == {T \in SUBSET GameRows : Cardinality(T) <= MaxRows}

TrendTables == {T \in SUBSET TrendRows : Cardinality(T) <= MaxRows}

\* The strings the sorts compare, in ascending order.
SortedStrings ==
    <<"2024-01-07", "2024-11-10", "2025-02-09",
      "BUFNYJ20241110", "CHIBUF20250209", "CHINYJ20240107", "NYJCHI20241110",
      "home ats,February", "home ats,January", "home ats,None", "home ats,November">>

StringRank(s) == CHOOSE i \in 1..Len(SortedStrings) : SortedStrings[i] = s

\* The filters of a request to /games, none given.
NoGameFilters ==
    [month |-> PyNone, start_month |-> PyNone, end_month |-> PyNone,
     home_team |-> PyNone, away_team |-> PyNone,
     home_abbreviation |-> PyNone, away_abbreviation |-> PyNone,
     home_score |-> PyNone, min_home_score |-> PyNone, max_home_score |-> PyNone,
     spread |-> PyNone, min_spread |-> PyNone, max_spread |-> PyNone,
     home_spread_result |-> PyNone, min_home_spread_result |-> PyNone,
     max_home_spread_result |-> PyNone,
     limit |-> Absent, offset |-> Absent, sort_by |-> Absent]

\* The filters of a request to /trends, none given.
NoTrendFilters ==
    [month |-> PyNone, start_month |-> PyNone, end_month |-> PyNone,
     spread |-> PyNone, total |-> PyNone, category |-> PyNone, seasons |-> PyNone,
     limit |-> Absent, offset |-> Absent, sort_by |-> Absent]

(***************************************************************************)
(* The numeric fields of GameFilter: the pre-validators, then the           *)
(* conversion to the annotated type.  A validator gives [ok, value].        *)
(***************************************************************************)
Accepted(value) == [ok |-> TRUE, value |-> value]

Rejected == [ok |-> FALSE, value |-> PyNone]

\* validate_home_score / validate_home_spread_result: an int or each int of a
\* list within lo..hi; any other value passes unchecked.
validate_int_range(value, lo, hi) ==
    IF TypeOf(value) = "int"
    THEN IF lo <= Payload(value) /\ Payload(value) <= hi THEN Accepted(value) ELSE Rejected
    ELSE IF TypeOf(value) = "list"
    THEN IF \A i \in 1..Len(Payload(value)) :
              /\ TypeOf(Payload(value)[i]) = "int"
              /\ lo <= Payload(Payload(value)[i]) /\ Payload(Payload(value)[i]) <= hi
         THEN Accepted(value) ELSE Rejected
    ELSE Accepted(value)

validate_home_score(value) == validate_int_range(value, 0, 100)

validate_home_spread_result(value) == validate_int_range(value, -100, 100)

\* "not (0 <= value <= 27) or (value * 10) % 5 != 0", on tenths.
SpreadOutOfDomain(tenths) == ~(0 <= tenths /\ tenths <= 270) \/ tenths % 5 # 0

\* validate_spread: a float, or each float of a list; any other value passes
\* unchecked.
validate_spread(value) ==
    IF TypeOf(value) = "float"
    THEN IF SpreadOutOfDomain(Payload(value)) THEN Rejected ELSE Accepted(value)
    ELSE IF TypeOf(value) = "list"
    THEN IF \E i \in 1..Len(Payload(value)) :
              \/ TypeOf(Payload(value)[i]) # "float"
              \/ SpreadOutOfDomain(Payload(Payload(value)[i]))
         THEN Rejected ELSE Accepted(value)
    ELSE Accepted(value)

\* Optional[float] and Optional[Union[float, List[float]]]: an int becomes the
\* float of the same value; a list is taken by the second annotation only.
FloatField(checked, list_allowed) ==
    LET value == checked.value
        float(x) == IF TypeOf(x) = "int" THEN PyFloat(10 * Payload(x)) ELSE x
    IN  IF ~checked.ok THEN Rejected
        ELSE IF TypeOf(value) \in {"none", "int", "float"} THEN Accepted(float(value))
        ELSE IF TypeOf(value) = "list" /\ list_allowed
        THEN Accepted(PyList([i \in 1..Len(Payload(value)) |-> float(Payload(value)[i])]))
        ELSE Rejected

\* Optional[int] and Optional[Union[int, List[int]]].
IntField(checked, list_allowed) ==
    IF ~checked.ok THEN Rejected
    ELSE IF TypeOf(checked.value) \in {"none", "int"} THEN checked
    ELSE IF TypeOf(checked.value) = "list" /\ list_allowed THEN checked
    ELSE Rejected

(***************************************************************************)
(* The enum-valued fields: str.capitalize, str.upper, str.lower and         *)
(* str.strip on the strings the requests carry, and the validators.         *)
(***************************************************************************)
capitalize(s) ==
    CASE s \in {"january", "JANUARY"} -> "January"
      [] s = "none" -> "None"
      [] OTHER -> s

upper(s) ==
    CASE s \in {"chi", "Chi"} -> "CHI"
      [] s = "nyj" -> "NYJ"
      [] OTHER -> s

lower(s) ==
    CASE s \in {"Home ATS", "HOME ATS"} -> "home ats"
      [] s = "OVER" -> "over"
      [] s \in {"Chicago Bears", "CHICAGO BEARS"} -> "chicago bears"
      [] s = "New York Jets" -> "new york jets"
      [] s = "Buffalo Bills" -> "buffalo bills"
      [] s = "Fan@Example.COM" -> "fan@example.com"
      [] OTHER -> s

strip(s) ==
    CASE s = " chicago bears " -> "chicago bears"
      [] s = " coach@team.org " -> "coach@team.org"
      [] s = "  " -> ""
      [] OTHER -> s

\* The members of the enums that the rows and the requests use.
MonthEnum == DOMAIN MONTH_MAPPING

FullTeamNameEnum == {"Chicago Bears", "New York Jets", "Buffalo Bills"}

TeamAbbreviationEnum == {"CHI", "NYJ", "BUF"}

CategoryEnum ==
    {"home outright", "away outright", "favorite outright", "underdog outright",
     "home favorite outright", "away underdog outright", "away favorite outright",
     "home underdog outright", "home ats", "away ats", "favorite ats",
     "underdog ats", "home favorite ats", "away underdog ats",
     "away favorite ats", "home underdog ats", "over", "under"}

\* A validator that replaces each string, scalar or list element, by
\* convert(string) and raises unless the result is in allowed.
ConvertAndCheck(value, convert(_), allowed) ==
    IF TypeOf(value) = "str"
    THEN IF convert(Payload(value)) \in allowed
         THEN Accepted(PyStr(convert(Payload(value)))) ELSE Rejected
    ELSE IF TypeOf(value) = "list"
    THEN IF \A i \in 1..Len(Payload(value)) : convert(Payload(Payload(value)[i])) \in allowed
         THEN Accepted(PyList([i \in 1..Len(Payload(value)) |->
                                  PyStr(convert(Payload(Payload(value)[i])))]))
         ELSE Rejected
    ELSE Accepted(value)

\* GameFilter.validate_month
validate_month(value) == ConvertAndCheck(value, capitalize, MonthEnum)

\* GameFilter.validate_team: normalize(v) is the team name that equals v
\* without regard to case and surrounding blanks.
normalize(v) ==
    IF \E team_name \in FullTeamNameEnum : lower(strip(v)) = lower(team_name)
    THEN CHOOSE team_name \in FullTeamNameEnum : lower(strip(v)) = lower(team_name)
    ELSE "ValueError"

validate_team(value) == ConvertAndCheck(value, normalize, FullTeamNameEnum)

validate_team_abbreviation(value) == ConvertAndCheck(value, upper, TeamAbbreviationEnum)

\* TrendFilter.validate_category: the scalar is lowered and returned; the
\* elements of a list are lowered for the test only, and the list is returned
\* as it came.
validate_category(value) ==
    IF TypeOf(value) = "str" THEN ConvertAndCheck(value, lower, CategoryEnum)
    ELSE IF TypeOf(value) = "list"
    THEN IF \A i \in 1..Len(Payload(value)) : lower(Payload(Payload(value)[i])) \in CategoryEnum
         THEN Accepted(value) ELSE Rejected
    ELSE Accepted(value)

\* TrendFilter.validate_month: "None" passes as the sentinel of NULL.
trend_validate_month(value) ==
    IF value = PyStr("None") THEN Accepted(value)
    ELSE ConvertAndCheck(value, capitalize,
                         IF TypeOf(value) = "list" THEN MonthEnum \cup {"None"}
                         ELSE MonthEnum)

\* TrendFilter.validate_start_end_month
validate_start_end_month(value) ==
    IF value = PyStr("None") \/ TypeOf(value) = "list" THEN Rejected
    ELSE ConvertAndCheck(value, capitalize, MonthEnum)

\* VALID_SEASONS = [f"since {year}-{year + 1}" for year in range(2006, 2026)]
VALID_SEASONS ==
    [i \in 1..20 |-> "since " \o ToString(2005 + i) \o "-" \o ToString(2006 + i)]

\* TrendFilter.validate_season: each given season is one of VALID_SEASONS; a
\* scalar exact becomes a list.
validate_season(seasons) ==
    IF TypeOf(seasons) # "dict" THEN Accepted(seasons)
    ELSE LET items == Payload(seasons)
             valid == {VALID_SEASONS[i] : i \in DOMAIN VALID_SEASONS}
             good(v) == ~Truthy(v) \/
                          IF TypeOf(v) = "list" THEN Strings(Payload(v)) \subseteq valid
                          ELSE Payload(v) \in valid
         IN  IF \A i \in 1..Len(items) : good(items[i][2])
             THEN Accepted(PyDict([i \in 1..Len(items) |->
                    IF items[i][1] = "exact" /\ TypeOf(items[i][2]) = "str"
                         /\ Truthy(items[i][2])
                    THEN <<"exact", PyList(<<items[i][2]>>)>>
                    ELSE items[i]]))
             ELSE Rejected

\* The numbers of a list.
Numbers(l) == {Payload(l[i]) : i \in 1..Len(l)}

\* "Filter by HOME SCORE", "Filter by SPREAD", "Filter by HOME SPREAD RESULT":
\* "if filters.x:", then == for the scalar and in_ for the list. The numeric
\* columns of the modelled rows are never NULL.
ExactFragments(value, col) ==
    IF Truthy(value)
    THEN IF TypeOf(value) = "list" THEN <<Sql(col \in Numbers(Payload(value)))>>
         ELSE <<Sql(col = Payload(value))>>
    ELSE <<>>

\* "Filter by a HOME SCORE RANGE" and the like: "if filters.min_x and
\* filters.max_x: ... elif filters.min_x: ... elif filters.max_x:".
RangeFragments(min, max, col) ==
    IF Truthy(min) /\ Truthy(max)
    THEN <<Between(col, Payload(min), Payload(max))>>
    ELSE IF Truthy(min) THEN <<Ge(col, Payload(min))>>
    ELSE IF Truthy(max) THEN <<Le(col, Payload(max))>>
    ELSE <<>>

\* get_games, "Filter by MONTH": the fragments appended to filters_list.
GameMonthFragments(filters, row) ==
    IF Truthy(filters.month)
    THEN IF TypeOf(filters.month) = "str"
         THEN <<Eq(row.month, Payload(filters.month))>>
         ELSE <<In(row.month, Strings(Payload(filters.month)))>>
    ELSE <<>>

\* get_games, "Filter by a MONTH RANGE".
GameMonthRangeFragments(filters, row) ==
    IF Truthy(filters.start_month) /\ Truthy(filters.end_month)
    THEN <<Between(month_case(row.month),
                        MONTH_MAPPING[Payload(filters.start_month)],
                        MONTH_MAPPING[Payload(filters.end_month)])>>
    ELSE IF Truthy(filters.start_month)
    THEN <<Ge(month_case(row.month), MONTH_MAPPING[Payload(filters.start_month)])>>
    ELSE IF Truthy(filters.end_month)
    THEN <<Le(month_case(row.month), MONTH_MAPPING[Payload(filters.end_month)])>>
    ELSE <<>>

normalize_to_list(value) ==
    IF TypeOf(value) = "list" THEN Payload(value)
    ELSE IF Truthy(value) THEN <<value>>
    ELSE <<>>

\* Scenario 1: all games involving any of the teams.
MatchupScenario1(home_teams, away_teams, home, away) ==
    or_(In(home, Strings(home_teams)), In(away, Strings(away_teams)))

\* Two lists resolved as a team on either side.
MatchupEitherSide(home_teams, away_teams, home, away) ==
    or_(In(home, Strings(home_teams)), In(away, Strings(away_teams)))

\* Scenario 3: all matchups between these teams, any home/away.
MatchupScenario3(home_teams, away_teams, home, away) ==
    or_(and_(In(home, Strings(home_teams)), In(away, Strings(away_teams))),
        and_(In(home, Strings(away_teams)), In(away, Strings(home_teams))))

\* Two single teams resolved in both directions.
MatchupAnyDirection(home_teams, away_teams, home, away) ==
    or_(and_(In(home, Strings(home_teams)), In(away, Strings(away_teams))),
        and_(In(home, Strings(away_teams)), In(away, Strings(home_teams))))

\* Scenario 2: specific home vs away matchup.
MatchupScenario2(home_teams, away_teams, home, away) ==
    and_(Eq(home, Payload(home_teams[1])), Eq(away, Payload(away_teams[1])))

\* get_games, "Filter by HOME TEAM and AWAY TEAM" and the same code for the
\* abbreviations: home and away are the row's two columns.
MatchupFragments(home_filter, away_filter, home, away) ==
    LET home_teams == normalize_to_list(home_filter)
        away_teams == normalize_to_list(away_filter)
    IN  IF home_teams # <<>> /\ away_teams # <<>>
        THEN IF /\ Cardinality(Strings(home_teams)) = 1
                /\ Cardinality(Strings(away_teams)) = 1
                /\ Strings(home_teams) = Strings(away_teams)
             THEN <<MatchupScenario1(home_teams, away_teams, home, away)>>
             ELSE IF Len(home_teams) = 1 /\ Len(away_teams) = 1
             THEN <<MatchupScenario2(home_teams, away_teams, home, away)>>
             ELSE <<MatchupScenario3(home_teams, away_teams, home, away)>>
        ELSE IF home_teams # <<>>
        THEN <<In(home, Strings(home_teams))>>
        ELSE IF away_teams # <<>>
        THEN <<In(away, Strings(away_teams))>>
        ELSE <<>>

\* filters_list of get_games for one row, and the row's fate under
\* query.filter(*filters_list).
GameFiltersList(filters, row) ==
    GameMonthFragments(filters, row)
      \o GameMonthRangeFragments(filters, row)
      \o MatchupFragments(filters.home_team, filters.away_team,
                          row.home_team, row.away_team)
      \o MatchupFragments(filters.home_abbreviation, filters.away_abbreviation,
                          row.home_abbreviation, row.away_abbreviation)
      \o ExactFragments(filters.home_score, row.home_score)
      \o RangeFragments(filters.min_home_score, filters.max_home_score, row.home_score)
      \o ExactFragments(filters.spread, row.spread)
      \o RangeFragments(filters.min_spread, filters.max_spread, row.spread)
      \o ExactFragments(filters.home_spread_result, row.home_spread_result)
      \o RangeFragments(filters.min_home_spread_result,
                        filters.max_home_spread_result, row.home_spread_result)

GameWhere(filters, row) == AndAll(GameFiltersList(filters, row)) = SqlTrue

\* get_trends, "Handle month value or list (including "None")".
month_conditions(filters, row) ==
    IF Truthy(filters.month)
    THEN IF TypeOf(filters.month) = "str"
         THEN IF Payload(filters.month) = "None"
              THEN <<IsNull(row.month)>>
              ELSE <<Eq(row.month, Payload(filters.month))>>
         ELSE LET values == Strings(Payload(filters.month)) \ {"None"}
              IN  (IF values # {} THEN <<In(row.month, values)>> ELSE <<>>)
                    \o (IF "None" \in Strings(Payload(filters.month))
                        THEN <<IsNull(row.month)>> ELSE <<>>)
    ELSE <<>>

\* get_trends, "Handle start_month/end_month range": <<>> is None.
range_condition(filters, row) ==
    IF Truthy(filters.start_month) /\ Truthy(filters.end_month)
    THEN <<and_(IsNotNull(row.month),
                Between(month_case(row.month),
                             MONTH_MAPPING[Payload(filters.start_month)],
                             MONTH_MAPPING[Payload(filters.end_month)]))>>
    ELSE IF Truthy(filters.start_month)
    THEN <<and_(IsNotNull(row.month),
                Ge(month_case(row.month), MONTH_MAPPING[Payload(filters.start_month)]))>>
    ELSE IF Truthy(filters.end_month)
    THEN <<and_(IsNotNull(row.month),
                Le(month_case(row.month), MONTH_MAPPING[Payload(filters.end_month)]))>>
    ELSE <<>>

\* get_trends, "Combine logic: OR between month filter and range".
CombineMonth(conditions, range) ==
    IF conditions # <<>> /\ range # <<>>
    THEN <<or_(OrAll(conditions), range[1])>>
    ELSE IF conditions # <<>> THEN <<OrAll(conditions)>>
    ELSE range

TrendMonthFragments(filters, row) ==
    CombineMonth(month_conditions(filters, row), range_condition(filters, row))

\* A field of a SpreadFilter / TotalFilter (default None).
FilterField(filter, name) ==
    IF name \in DictKeys(filter) THEN DictValue(filter, name) ELSE PyNone

\* The exact list as one membership test, "None" included.
exact_clauses_membership_only(exact, col) ==
    IF Truthy(exact)
    THEN LET exact_list == IF TypeOf(exact) = "str" THEN <<exact>> ELSE Payload(exact)
         IN  <<In(col, Strings(exact_list))>>
    ELSE <<>>

\* "if filters.spread.exact:" and what it appends to the clauses.
exact_clauses(exact, col) ==
    IF Truthy(exact)
    THEN LET exact_list == IF TypeOf(exact) = "str" THEN <<exact>> ELSE Payload(exact)
             non_null == Strings(exact_list) \ {"None"}
         IN  (IF non_null # {} THEN <<In(col, non_null)>> ELSE <<>>)
               \o (IF "None" \in Strings(exact_list) THEN <<IsNull(col)>> ELSE <<>>)
    ELSE <<>>

\* "if filters.spread.or_less is not None:" (suffix " or less") and the same
\* for or_more.
bound_clauses(bound, suffix, col) ==
    IF TypeOf(bound) # "none"
    THEN LET bound_list == IF TypeOf(bound) = "int" THEN <<bound>> ELSE Payload(bound)
         IN  <<In(col, {ToString(Payload(bound_list[i])) \o suffix :
                          i \in 1..Len(bound_list)})>>
    ELSE <<>>

\* get_trends, "Filter by SPREAD" ("Filter by TOTAL" is the same code).
spread_clauses(spread, col) ==
    IF TypeOf(spread) = "str"
    THEN IF Payload(spread) = "None" THEN <<IsNull(col)>> ELSE <<>>
    ELSE exact_clauses(FilterField(spread, "exact"), col)
           \o bound_clauses(FilterField(spread, "or_less"), " or less", col)
           \o bound_clauses(FilterField(spread, "or_more"), " or more", col)

\* A SpreadFilter object is true whatever its fields.
SpreadTruthy(spread) == TypeOf(spread) = "dict" \/ Truthy(spread)

SpreadFragments(spread, col) ==
    IF SpreadTruthy(spread) /\ spread_clauses(spread, col) # <<>>
    THEN <<OrAll(spread_clauses(spread, col))>>
    ELSE <<>>

\* get_trends, "Filter by CATEGORY".
CategoryFragments(filters, row) ==
    IF Truthy(filters.category)
    THEN IF TypeOf(filters.category) = "str"
         THEN <<Eq(row.category, Payload(filters.category))>>
         ELSE <<In(row.category, Strings(Payload(filters.category)))>>
    ELSE <<>>

\* VALID_SEASONS.index(season)
SeasonIndex(season) == CHOOSE i \in DOMAIN VALID_SEASONS : VALID_SEASONS[i] = season

\* get_trends, "Filter by SEASONS": the clauses, joined by or_.
season_clauses(seasons, col) ==
    LET exact == FilterField(seasons, "exact")
        since_or_later == FilterField(seasons, "since_or_later")
        since_or_earlier == FilterField(seasons, "since_or_earlier")
    IN  (IF Truthy(exact) THEN <<In(col, Strings(Payload(exact)))>> ELSE <<>>)
          \o (IF Truthy(since_or_later)
              THEN <<In(col, {VALID_SEASONS[i] :
                        i \in SeasonIndex(Payload(since_or_later))..Len(VALID_SEASONS)})>>
              ELSE <<>>)
          \o (IF Truthy(since_or_earlier)
              THEN <<In(col, {VALID_SEASONS[i] :
                        i \in 1..SeasonIndex(Payload(since_or_earlier))})>>
              ELSE <<>>)

SeasonFragments(seasons, col) ==
    IF TypeOf(seasons) = "dict" /\ season_clauses(seasons, col) # <<>>
    THEN <<OrAll(season_clauses(seasons, col))>>
    ELSE <<>>

TrendFiltersList(filters, row) ==
    CategoryFragments(filters, row)
      \o TrendMonthFragments(filters, row)
      \o SeasonFragments(filters.seasons, row.seasons)
      \o SpreadFragments(filters.spread, row.spread)
      \o SpreadFragments(filters.total, row.total)

TrendWhere(filters, row) == AndAll(TrendFiltersList(filters, row)) = SqlTrue

(***************************************************************************)
(* Validation of limit, offset and sort_by; sorting; the response.         *)
(***************************************************************************)
GameLimitDefault == 100
GameLimitMax == 1000
TrendLimitDefault == 5000
TrendLimitMax == 5000000

HTTP_200 == 200
HTTP_400 == 400
HTTP_422 == 422

\* A validator gives [ok, value]: the validated value, or a ValueError.
\* validate_limit (pre=True: not run when the field is absent).
validate_limit(value, default, max) ==
    IF TypeOf(value) = "absent" THEN [ok |-> TRUE, value |-> default]
    ELSE IF TypeOf(value) # "int" \/ ~(1 <= Payload(value) /\ Payload(value) <= max)
    THEN [ok |-> FALSE, value |-> 0]
    ELSE [ok |-> TRUE, value |-> Payload(value)]

validate_offset(value) ==
    IF TypeOf(value) = "absent" THEN [ok |-> TRUE, value |-> 0]
    ELSE IF TypeOf(value) # "int" \/ Payload(value) < 0
    THEN [ok |-> FALSE, value |-> 0]
    ELSE [ok |-> TRUE, value |-> Payload(value)]

SortField(field, order) == [field |-> field, order |-> order]

\* One item of sort_by: a field name, or a dict with "field" and an optional
\* "order" (Literal["asc", "desc"], default "asc").
SortItemOk(v) ==
    \/ TypeOf(v) = "str"
    \/ /\ TypeOf(v) = "dict"
       /\ "field" \in DictKeys(v)
       /\ "order" \in DictKeys(v) => Payload(DictValue(v, "order")) \in {"asc", "desc"}

SortItem(v) ==
    IF TypeOf(v) = "str" THEN SortField(Payload(v), "asc")
    ELSE SortField(Payload(DictValue(v, "field")),
                   IF "order" \in DictKeys(v) THEN Payload(DictValue(v, "order"))
                   ELSE "asc")

\* validate_sort_by (pre=True: the Field default stands when sort_by is
\* absent); the value <<>> is None.
validate_sort_by(value, default) ==
    IF TypeOf(value) = "absent" THEN [ok |-> TRUE, value |-> default]
    ELSE IF ~Truthy(value) THEN [ok |-> TRUE, value |-> <<>>]
    ELSE IF TypeOf(value) \in {"str", "dict"}
    THEN [ok |-> SortItemOk(value),
          value |-> IF SortItemOk(value) THEN <<SortItem(value)>> ELSE <<>>]
    ELSE IF TypeOf(value) = "list"
    THEN LET items == Payload(value)
             ok == \A i \in 1..Len(items) : SortItemOk(items[i])
         IN  [ok |-> ok,
              value |-> IF ok THEN [i \in 1..Len(items) |-> SortItem(items[i])] ELSE <<>>]
    ELSE [ok |-> FALSE, value |-> <<>>]

\* The Field defaults of sort_by.
GameDefaultSort == <<SortField("date", "asc"), SortField("id_string", "asc")>>

TrendDefaultSort ==
    <<SortField("win_percentage", "desc"), SortField("total_games", "desc")>>

\* inspect(Game).mapper.column_attrs, inspect(Trend).mapper.column_attrs: the
\* columns of the modelled rows.
GameColumns ==
    {"id_string", "date", "month", "home_team", "away_team",
     "home_abbreviation", "away_abbreviation", "home_score", "spread",
     "home_spread_result"}

TrendColumns ==
    {"id_string", "month", "spread", "total", "win_percentage", "total_games",
     "category", "seasons"}

IntegerColumns ==
    {"win_percentage", "total_games", "home_score", "spread", "home_spread_result"}

\* What ORDER BY compares for one sort column, ascending.
SortKey(row, field) ==
    IF field = "month" THEN month_sort_case(row.month)
    ELSE IF field \in IntegerColumns THEN row[field]
    ELSE StringRank(row[field])

\* Row a may come before row b under query.order_by(*sort_columns).
RECURSIVE MayPrecede(_, _, _)
MayPrecede(a, b, sort_columns) ==
    IF sort_columns = <<>> THEN TRUE
    ELSE LET sort == Head(sort_columns)
             ka == SortKey(a, sort.field)
             kb == SortKey(b, sort.field)
         IN  IF ka = kb THEN MayPrecede(a, b, Tail(sort_columns))
             ELSE IF sort.order = "desc" THEN ka > kb
             ELSE ka < kb

Ordered(s, sort_columns) ==
    \A i, j \in 1..Len(s) : i < j => MayPrecede(s[i], s[j], sort_columns)

\* The orders in which query.all() may return the rows: any order that
\* agrees with the ORDER BY; any order at all without one.
Orderings(rows, sort_columns) ==
    {s \in [1..Cardinality(rows) -> rows] :
        /\ \A i, j \in 1..Cardinality(rows) : i # j => s[i] # s[j]
        /\ Ordered(s, sort_columns)}

\* query.limit(limit).offset(offset) ("if filters.offset:" skips offset 0).
Paginate(s, limit, offset) ==
    [i \in 1..(IF Len(s) - offset < limit
               THEN (IF Len(s) > offset THEN Len(s) - offset ELSE 0)
               ELSE limit) |-> s[offset + i]]

\* A count taken from the page.
total_count_of_page(rows, page) == Len(page)

\* query.order_by(None).count(): taken before the sorting and the pagination;
\* the page plays no part.
total_count(rows, page) == Cardinality(rows)

ResponseKeys == {"limit", "offset", "count", "total_count", "results"}

\* A response: its status, the keys of its body (none when the body is a
\* bare list or an error) and their values, the sort field an HTTPException
\* names in its detail, and the statements the handler executed on the
\* session before it answered.
ErrorResponse(status) ==
    [status |-> status, keys |-> {}, limit |-> 0, offset |-> 0, count |-> 0,
     total_count |-> 0, results |-> <<>>, detail |-> "", executed |-> <<>>]

\* "return []"
BareList == ErrorResponse(HTTP_200)

NoResponse == ErrorResponse(0)

\* "if not games: return []" and the dict returned otherwise.
Body(page, limit, offset, total) ==
    IF page = <<>> THEN [BareList EXCEPT !.executed = <<"count", "all">>]
    ELSE [status |-> HTTP_200, keys |-> ResponseKeys, limit |-> limit,
          offset |-> offset, count |-> Len(page), total_count |-> total,
          results |-> page, detail |-> "", executed |-> <<"count", "all">>]

\* "raise HTTPException(status_code=400, ...)" in the loop over sort_by: the
\* first field that is not a column, after query.order_by(None).count() ran.
InvalidSortField(sort_by, valid_sort_fields) ==
    LET first == CHOOSE i \in 1..Len(sort_by) :
                    /\ sort_by[i].field \notin valid_sort_fields
                    /\ \A j \in 1..(i - 1) : sort_by[j].field \in valid_sort_fields
    IN  [ErrorResponse(HTTP_400) EXCEPT !.detail = sort_by[first].field,
                                        !.executed = <<"count">>]

\* From "Apply filters" to the return of get_games / get_trends: the
\* responses the matched rows may give.
RunQuery(rows, sort_by, limit, offset, valid_sort_fields) ==
    IF \E i \in 1..Len(sort_by) : sort_by[i].field \notin valid_sort_fields
    THEN {InvalidSortField(sort_by, valid_sort_fields)}
    ELSE {Body(Paginate(s, limit, offset), limit, offset,
               total_count(rows, Paginate(s, limit, offset))) :
            s \in Orderings(rows, sort_by)}

\* GameFilter(**body): the validated filters, or a validation error. limit,
\* offset and sort_by are validated in get_games below.
GameFilter(raw) ==
    LET fields ==
          [month |-> validate_month(raw.month),
           start_month |-> validate_month(raw.start_month),
           end_month |-> validate_month(raw.end_month),
           home_team |-> validate_team(raw.home_team),
           away_team |-> validate_team(raw.away_team),
           home_abbreviation |-> validate_team_abbreviation(raw.home_abbreviation),
           away_abbreviation |-> validate_team_abbreviation(raw.away_abbreviation),
           home_score |-> IntField(validate_home_score(raw.home_score), TRUE),
           min_home_score |-> IntField(validate_home_score(raw.min_home_score), FALSE),
           max_home_score |-> IntField(validate_home_score(raw.max_home_score), FALSE),
           spread |-> FloatField(validate_spread(raw.spread), TRUE),
           min_spread |-> FloatField(validate_spread(raw.min_spread), FALSE),
           max_spread |-> FloatField(validate_spread(raw.max_spread), FALSE),
           home_spread_result |->
             IntField(validate_home_spread_result(raw.home_spread_result), TRUE),
           min_home_spread_result |->
             IntField(validate_home_spread_result(raw.min_home_spread_result), FALSE),
           max_home_spread_result |->
             IntField(validate_home_spread_result(raw.max_home_spread_result), FALSE)]
    IN  [ok |-> \A f \in DOMAIN fields : fields[f].ok,
         value |-> [f \in DOMAIN raw |->
                      IF f \in DOMAIN fields THEN fields[f].value ELSE raw[f]]]

GameMatched(filters, table) == {row \in table : GameWhere(filters, row)}

\* TrendFilter(**body): the validated filters, or a validation error.
TrendFilter(raw) ==
    LET fields ==
          [category |-> validate_category(raw.category),
           month |-> trend_validate_month(raw.month),
           start_month |-> validate_start_end_month(raw.start_month),
           end_month |-> validate_start_end_month(raw.end_month),
           seasons |-> validate_season(raw.seasons)]
    IN  [ok |-> \A f \in DOMAIN fields : fields[f].ok,
         value |-> [f \in DOMAIN raw |->
                      IF f \in DOMAIN fields THEN fields[f].value ELSE raw[f]]]

TrendMatched(filters, table) == {row \in table : TrendWhere(filters, row)}

\* POST /games: the responses a request may get.
get_games(raw, table) ==
    LET filters == GameFilter(raw)
        limit == validate_limit(raw.limit, GameLimitDefault, GameLimitMax)
        offset == validate_offset(raw.offset)
        sort_by == validate_sort_by(raw.sort_by, GameDefaultSort)
    IN  IF ~(filters.ok /\ limit.ok /\ offset.ok /\ sort_by.ok)
        THEN {ErrorResponse(HTTP_422)}
        ELSE RunQuery(GameMatched(filters.value, table), sort_by.value, limit.value,
                      offset.value, GameColumns)

\* POST /trends: the responses a request may get.
get_trends(raw, table) ==
    LET filters == TrendFilter(raw)
        limit == validate_limit(raw.limit, TrendLimitDefault, TrendLimitMax)
        offset == validate_offset(raw.offset)
        sort_by == validate_sort_by(raw.sort_by, TrendDefaultSort)
    IN  IF ~(filters.ok /\ limit.ok /\ offset.ok /\ sort_by.ok)
        THEN {ErrorResponse(HTTP_422)}
        ELSE RunQuery(TrendMatched(filters.value, table), sort_by.value, limit.value,
                      offset.value, TrendColumns)

(***************************************************************************)
(* The requests.                                                           *)
(***************************************************************************)
GameMonthValues ==
    {PyNone, PyStr("January"), PyList(<<PyStr("January"), PyStr("February")>>),
     PyStr("january"), PyList(<<PyStr("JANUARY")>>), PyStr("Janvier")}

TrendMonthValues ==
    {PyNone, PyStr("January"), PyStr("None"),
     PyList(<<PyStr("None"), PyStr("November")>>),
     PyStr("JANUARY"), PyList(<<PyStr("none"), PyStr("january")>>), PyStr("none")}

TrendCategoryValues ==
    {PyNone, PyStr("home ats"), PyStr("HOME ATS"), PyList(<<PyStr("Home ATS")>>),
     PyList(<<PyStr("home ats"), PyStr("over")>>), PyStr("OVER"), PyStr("sideways")}

SeasonFilters ==
    {PyNone,
     PyDict(<< <<"since_or_later", PyStr("since 2015-2016")>> >>),
     PyDict(<< <<"since_or_earlier", PyStr("since 2015-2016")>> >>),
     PyDict(<< <<"since_or_later", PyStr("since 2015-2016")>>,
               <<"since_or_earlier", PyStr("since 2020-2021")>> >>),
     PyDict(<< <<"since_or_later", PyStr("since 2020-2021")>>,
               <<"since_or_earlier", PyStr("since 2015-2016")>> >>),
     PyDict(<< <<"exact", PyStr("since 2006-2007")>> >>),
     PyDict(<< <<"exact", PyList(<<PyStr("since 2006-2007")>>)>>,
               <<"since_or_later", PyStr("since 2024-2025")>> >>),
     PyDict(<< <<"since_or_later", PyStr("since 2005-2006")>> >>)}

MonthBounds == {PyNone, PyStr("February"), PyStr("November")}

TeamValues ==
    {PyNone, PyStr("Chicago Bears"), PyStr("New York Jets"),
     PyList(<<PyStr("Chicago Bears"), PyStr("New York Jets")>>),
     PyList(<<PyStr("Chicago Bears"), PyStr("Chicago Bears")>>),
     PyStr(" chicago bears "), PyList(<<PyStr("CHICAGO BEARS")>>),
     PyStr("Chicago Cubs")}

AbbreviationValues ==
    {PyNone, PyStr("CHI"), PyStr("NYJ"), PyList(<<PyStr("CHI"), PyStr("NYJ")>>),
     PyStr("chi"), PyList(<<PyStr("Chi"), PyStr("nyj")>>)}

ScoreValues == {PyNone, PyInt(0), PyInt(21), PyList(<<PyInt(0), PyInt(7)>>), PyInt(101)}

ScoreBounds == {PyNone, PyInt(0), PyInt(21)}

GameSpreadValues ==
    {PyNone, PyFloat(0), PyFloat(35), PyFloat(33), PyFloat(275), PyInt(3), PyInt(50),
     PyList(<<PyFloat(35), PyFloat(30)>>), PyList(<<PyFloat(35), PyFloat(33)>>),
     PyList(<<PyInt(3)>>)}

GameSpreadBounds == {PyNone, PyFloat(0), PyFloat(35), PyFloat(-5), PyInt(50)}

SpreadResultValues == {PyNone, PyInt(0), PyInt(5), PyList(<<PyInt(0), PyInt(-3)>>)}

SpreadResultBounds == {PyNone, PyInt(0), PyInt(5), PyInt(-3)}

SpreadFilters ==
    {PyNone,
     PyStr("None"),
     PyDict(<< <<"exact", PyList(<<PyStr("None"), PyStr("3.0")>>)>> >>),
     PyDict(<< <<"exact", PyList(<<PyStr("None")>>)>> >>),
     PyDict(<< <<"exact", PyStr("3.0")>> >>),
     PyDict(<< <<"exact", PyList(<<>>)>> >>),
     PyDict(<< <<"or_less", PyInt(3)>> >>),
     PyDict(<< <<"exact", PyList(<<PyStr("None"), PyStr("7.0")>>)>>,
               <<"or_less", PyList(<<PyInt(3)>>)>> >>)}

TotalFilters ==
    {PyNone,
     PyStr("None"),
     PyDict(<< <<"exact", PyList(<<PyStr("None"), PyStr("40 or less")>>)>> >>),
     PyDict(<< <<"exact", PyList(<<PyStr("None"), PyStr("None")>>)>> >>),
     PyDict(<< <<"or_more", PyInt(45)>> >>)}

QueryLimits == {Absent, PyInt(0), PyInt(1), PyInt(2), PyInt(100)}

QueryOffsets == {Absent, PyInt(1), PyInt(4)}

GameSorts ==
    {Absent, PyNone, PyList(<<>>), PyStr("month"),
     PyList(<<PyDict(<< <<"field", PyStr("date")>>, <<"order", PyStr("desc")>> >>)>>),
     PyStr("kickoff"),
     PyDict(<< <<"order", PyStr("desc")>> >>)}

TrendSorts ==
    {Absent, PyNone, PyList(<<>>), PyStr("month"),
     PyList(<<PyDict(<< <<"field", PyStr("total_games")>> >>), PyStr("id_string")>>),
     PyStr("record"),
     PyDict(<< <<"order", PyStr("desc")>> >>)}

GameRequests ==
    {[NoGameFilters EXCEPT !.month = m, !.start_month = s, !.end_month = e] :
        m \in GameMonthValues, s \in MonthBounds, e \in MonthBounds}
      \cup {[NoGameFilters EXCEPT !.home_team = h, !.away_team = a] :
              h \in TeamValues, a \in TeamValues}
      \cup {[NoGameFilters EXCEPT !.home_abbreviation = h, !.away_abbreviation = a] :
              h \in AbbreviationValues, a \in AbbreviationValues}
      \cup {[NoGameFilters EXCEPT !.start_month = s, !.limit = l, !.offset = o,
                                  !.sort_by = sb] :
              s \in {PyNone, PyStr("November")}, l \in QueryLimits,
              o \in QueryOffsets, sb \in GameSorts}
      \cup {[NoGameFilters EXCEPT !.home_score = x, !.min_home_score = lo,
                                  !.max_home_score = hi] :
              x \in ScoreValues, lo \in ScoreBounds, hi \in ScoreBounds}
      \cup {[NoGameFilters EXCEPT !.spread = x, !.min_spread = lo, !.max_spread = hi] :
              x \in GameSpreadValues, lo \in GameSpreadBounds, hi \in GameSpreadBounds}
      \cup {[NoGameFilters EXCEPT !.home_spread_result = x,
                                  !.min_home_spread_result = lo,
                                  !.max_home_spread_result = hi] :
              x \in SpreadResultValues, lo \in SpreadResultBounds,
              hi \in SpreadResultBounds}

TrendRequests ==
    {[NoTrendFilters EXCEPT !.month = m, !.start_month = s, !.end_month = e] :
        m \in TrendMonthValues, s \in MonthBounds, e \in MonthBounds}
      \cup {[NoTrendFilters EXCEPT !.spread = sp, !.total = t] :
              sp \in SpreadFilters, t \in TotalFilters}
      \cup {[NoTrendFilters EXCEPT !.start_month = s, !.limit = l, !.offset = o,
                                   !.sort_by = sb] :
              s \in {PyNone, PyStr("November")}, l \in QueryLimits,
              o \in QueryOffsets, sb \in TrendSorts}
      \cup {[NoTrendFilters EXCEPT !.category = c, !.seasons = se] :
              c \in TrendCategoryValues, se \in SeasonFilters}

\* The record of a query: the endpoint, the filters sent, the rows of the
\* table the WHERE clause kept (none when the filters were rejected), and the
\* response.
Query(endpoint, filters, matched, resp) ==
    [endpoint |-> endpoint, filters |-> filters, matched |-> matched, resp |-> resp]

NoQuery == Query("none", NoGameFilters, {}, NoResponse)

QueryIdle ==
    /\ games_table = {}
    /\ trends_table = {}
    /\ qlast = NoQuery

\* The store holds any table; each endpoint reads its own, so one of the two
\* is left empty.
QueryDraw ==
    /\ games_table \in GameTables
    /\ trends_table \in TrendTables
    /\ games_table = {} \/ trends_table = {}
    /\ qlast = NoQuery

\* The handlers keep nothing from one request to the next: the response to a
\* request depends on the table and the request alone, so each behaviour
\* sends one.
GetGames ==
    /\ QueryOnly
    /\ qlast = NoQuery
    /\ \E filters \in GameRequests :
         \E resp \in get_games(filters, games_table) :
            qlast' = Query("games", filters,
                           IF GameFilter(filters).ok
                           THEN GameMatched(GameFilter(filters).value, games_table)
                           ELSE {},
                           resp)
    /\ UNCHANGED <<games_table, trends_table>>

GetTrends ==
    /\ QueryOnly
    /\ qlast = NoQuery
    /\ \E filters \in TrendRequests :
         \E resp \in get_trends(filters, trends_table) :
            qlast' = Query("trends", filters,
                           IF TrendFilter(filters).ok
                           THEN TrendMatched(TrendFilter(filters).value, trends_table)
                           ELSE {},
                           resp)
    /\ UNCHANGED <<games_table, trends_table>>

QueryNext ==
    \/ GetGames
    \/ GetTrends

(***************************************************************************)
(* app/routers/email_subscriptions.py: subscribe and unsubscribe.          *)
(***************************************************************************)
HTTP_404 == 404
HTTP_409 == 409
INTERNAL_SERVER_ERROR == 500

\* datetime.utcnow advances one unit at a time up to MaxUtc.
MaxUtc == 3

\* The request bodies: addresses as clients type them.
EmailInputs ==
    {"fan@example.com", "Fan@Example.COM", "coach@team.org",
     " coach@team.org ", "not-an-address", "  ", ""}

\* re.match(email_pattern, s) on the stripped inputs.
MatchesEmailPattern(s) ==
    s \in {"fan@example.com", "Fan@Example.COM", "coach@team.org"}

\* EmailSubscriptionRequest.validate_email: blank and malformed addresses are
\* refused, the others are stripped and lowered.
validate_email(v) ==
    IF v = "" \/ strip(v) = "" THEN Rejected
    ELSE IF ~MatchesEmailPattern(strip(v)) THEN Rejected
    ELSE Accepted(lower(strip(v)))

\* db.query(EmailSubscription).filter(email == ...).first(): the index of the
\* row, 0 for None.  The column is unique, so there is at most one.
FirstSubscription(table, email) ==
    IF \E i \in 1..Len(table) : table[i].email = email
    THEN CHOOSE i \in 1..Len(table) : table[i].email = email
    ELSE 0

\* The classes the except clauses test: IntegrityError and fastapi's
\* HTTPException both derive from Exception.
ExceptionClasses == {"IntegrityError", "HTTPException"}

Raise(class, status, table) ==
    [raised |-> class, status_code |-> status, message |-> "", table |-> table]

Return(message, table) ==
    [raised |-> "", status_code |-> HTTP_200, message |-> message, table |-> table]

\* The body of subscribe_email's try block: what it returns or raises, and the
\* table it leaves.
subscribe_try(email, table, time) ==
    LET i == FirstSubscription(table, email)
    IN  IF i # 0
        THEN IF table[i].is_active
             THEN Raise("HTTPException", HTTP_409, table)
             ELSE Return("Successfully resubscribed to newsletter",
                         [table EXCEPT ![i].is_active = TRUE,
                                       ![i].updated_at = time])
        ELSE Return("Successfully subscribed to newsletter",
                    Append(table, [id |-> Len(table) + 1,
                                   email |-> email,
                                   subscription_date |-> time,
                                   is_active |-> TRUE,
                                   created_at |-> time,
                                   updated_at |-> time]))

\* The body of unsubscribe_email's try block.
unsubscribe_try(email, table, time) ==
    LET i == FirstSubscription(table, email)
    IN  IF i = 0
        THEN Raise("HTTPException", HTTP_404, table)
        ELSE IF ~table[i].is_active
             THEN Return("Email address is already unsubscribed", table)
             ELSE Return("Successfully unsubscribed from newsletter",
                         [table EXCEPT ![i].is_active = FALSE,
                                       ![i].updated_at = time])

\* db.rollback(): the table as last committed.
Rollback(outcome, committed) == committed

EmailResponse(status, message, table) ==
    [status_code |-> status, message |-> message, table |-> table]

\* subscribe_email's except clauses, in order: "except IntegrityError" answers
\* 409, "except Exception" answers 500; both roll back.
subscribe_except(outcome, committed) ==
    IF outcome.raised = ""
    THEN EmailResponse(outcome.status_code, outcome.message, outcome.table)
    ELSE IF outcome.raised = "IntegrityError"
         THEN EmailResponse(HTTP_409, "", Rollback(outcome, committed))
         ELSE IF outcome.raised \in ExceptionClasses
              THEN EmailResponse(INTERNAL_SERVER_ERROR, "",
                                 Rollback(outcome, committed))
              ELSE EmailResponse(outcome.status_code, "", outcome.table)

\* unsubscribe_email's only except clause: "except Exception" answers 500.
unsubscribe_except(outcome, committed) ==
    IF outcome.raised = ""
    THEN EmailResponse(outcome.status_code, outcome.message, outcome.table)
    ELSE IF outcome.raised \in ExceptionClasses
         THEN EmailResponse(INTERNAL_SERVER_ERROR, "",
                            Rollback(outcome, committed))
         ELSE EmailResponse(outcome.status_code, "", outcome.table)

\* POST /email-subscriptions/subscribe: a body the validator refuses is
\* answered 422 before the handler runs.
subscribe_email(raw, table, time) ==
    LET request == validate_email(raw)
    IN  IF ~request.ok
        THEN EmailResponse(HTTP_422, "", table)
        ELSE subscribe_except(subscribe_try(request.value, table, time), table)

\* POST /email-subscriptions/unsubscribe.
unsubscribe_email(raw, table, time) ==
    LET request == validate_email(raw)
    IN  IF ~request.ok
        THEN EmailResponse(HTTP_422, "", table)
        ELSE unsubscribe_except(unsubscribe_try(request.value, table, time),
                                table)

NoEmailOp == [op |-> "", email |-> "", status_code |-> 0, message |-> ""]

EmailIdle ==
    /\ email_subscriptions = <<>>
    /\ utcnow = 0
    /\ elast = NoEmailOp

SubscribeEmail ==
    \E raw \in EmailInputs :
        LET resp == subscribe_email(raw, email_subscriptions, utcnow)
        IN  /\ email_subscriptions' = resp.table
            /\ elast' = [op |-> "subscribe_email", email |-> raw,
                         status_code |-> resp.status_code,
                         message |-> resp.message]
            /\ UNCHANGED utcnow
            /\ EmailOnly

UnsubscribeEmail ==
    \E raw \in EmailInputs :
        LET resp == unsubscribe_email(raw, email_subscriptions, utcnow)
        IN  /\ email_subscriptions' = resp.table
            /\ elast' = [op |-> "unsubscribe_email", email |-> raw,
                         status_code |-> resp.status_code,
                         message |-> resp.message]
            /\ UNCHANGED utcnow
            /\ EmailOnly

UtcTick ==
    /\ utcnow < MaxUtc
    /\ utcnow' = utcnow + 1
    /\ UNCHANGED <<email_subscriptions, elast>>
    /\ EmailOnly

EmailNext ==
    \/ SubscribeEmail
    \/ UnsubscribeEmail
    \/ UtcTick

(***************************************************************************)
(* Specifications.                                                         *)
(***************************************************************************)
\* The handlers, one at a time.
Init == CacheInit /\ ConcIdle /\ KeyIdle /\ QueryIdle /\ EmailIdle

Next == CacheNext

Spec == Init /\ [][Next]_vars

\* Request threads on the caches as constructed; no time passes.
ConcInit == CacheInit /\ ConcIdle /\ KeyIdle /\ QueryIdle /\ EmailIdle

SpecConc == ConcInit /\ [][ConcNext]_vars

\* generate_cache_key on every pair of documents.
KeyInit == CacheInit /\ ConcIdle /\ KeyDraw /\ QueryIdle /\ EmailIdle

SpecKey == KeyInit /\ [][KeyNext]_vars

\* The games and trends queries on every table.
QueryInit == CacheInit /\ ConcIdle /\ KeyIdle /\ QueryDraw /\ EmailIdle

SpecQuery == QueryInit /\ [][QueryNext]_vars

\* The subscription handlers, one at a time, on the empty table.
EmailInit == CacheInit /\ ConcIdle /\ KeyIdle /\ QueryIdle /\ EmailIdle

SpecEmail == EmailInit /\ [][EmailNext]_vars

(***************************************************************************)
(* Properties of the caches.                                               *)
(***************************************************************************)
\* Every key weekly_trends_cache may be asked for.
AllWeeklyKeys == WeeklyKeys \cup {StartupCacheKey(s) : s \in Snapshots}

\* The entry stored last into upcoming_games_cache has not expired.
Unexpired == upcoming_put_at >= 0 /\ now - upcoming_put_at < ttl

\* C1: right after a put of value v under key k, in either cache, the
\* matching get returns v (for the time-expiring cache: as long as the entry
\* has not expired).
C1_GetAfterPut ==
    /\ (last.op = "set_upcoming_games_cache" /\ Unexpired)
         => get_upcoming_games_from_cache(upcoming_games_cache, now) = last.val
    /\ last.op = "set_weekly_trends_cache"
         => get_weekly_trends_from_cache(weekly_trends_cache, last.key) = last.val2
    /\ last.op = "set_initial_weekly_trends_cache"
         => get_initial_weekly_trends_from_cache(weekly_trends_cache) = last.val2

\* A put of a new key into the full general cache, and a put that overwrote
\* the value of the default upcoming-games entry, have happened.
C1_Witness ==
    /\ last.op = "set_weekly_trends_cache"
    /\ Len(weekly_trends_cache) = LruMaxSize
    /\ initial_pinned # None
    /\ ~LruContains(weekly_trends_cache, INITIAL_WEEKLY_TRENDS_KEY)
    /\ get_weekly_trends_from_cache(weekly_trends_cache, last.key) = last.val2

\* C2: after a clear that preserves the protected entry, run on a cache whose
\* protected key held v, the protected key still returns v and no other key
\* is present.
C2_ClearPreserves ==
    /\ (last.op \in {"clear_weekly_trends_cache", "clear_all_caches"}
          /\ last.flag /\ last.val2 # None)
         => /\ get_initial_weekly_trends_from_cache(weekly_trends_cache) = last.val2
            /\ \A k \in AllWeeklyKeys \ {INITIAL_WEEKLY_TRENDS_KEY} :
                  get_weekly_trends_from_cache(weekly_trends_cache, k) = None
            /\ LruKeys(weekly_trends_cache) = {INITIAL_WEEKLY_TRENDS_KEY}
    /\ (last.op \in {"clear_upcoming_games_cache", "clear_all_caches"}
          /\ last.flag /\ last.val # None /\ Unexpired)
         => /\ get_upcoming_games_from_cache(upcoming_games_cache, now) = last.val
            /\ \A i \in 1..Len(upcoming_games_cache) :
                  upcoming_games_cache[i].k = UPCOMING_GAMES_KEY

\* A preserving clear ran on a general cache that held the protected entry
\* and other entries.
C2_Witness ==
    /\ last.op = "clear_weekly_trends_cache"
    /\ last.flag
    /\ last.val2 # None
    /\ last.n >= 2

\* C3: after a clear that does not preserve, every key of the cleared cache,
\* the protected one included, is absent and the cache has size 0.
C3_ClearAll ==
    /\ (last.op \in {"clear_weekly_trends_cache", "clear_all_caches"} /\ ~last.flag)
         => /\ \A k \in AllWeeklyKeys :
                  get_weekly_trends_from_cache(weekly_trends_cache, k) = None
            /\ LruSize(weekly_trends_cache) = 0
    /\ (last.op \in {"clear_upcoming_games_cache", "clear_all_caches"} /\ ~last.flag)
         => /\ get_upcoming_games_from_cache(upcoming_games_cache, now) = None
            /\ TtlSize(upcoming_games_cache, now) = 0
            /\ upcoming_games_cache = <<>>

\* A clear-all without preserve ran while both protected entries, and other
\* entries, were present.
C3_Witness ==
    /\ last.op = "clear_all_caches"
    /\ ~last.flag
    /\ last.val # None
    /\ last.val2 # None
    /\ last.n >= 3

\* C4: an entry put under INITIAL_WEEKLY_TRENDS_KEY stays retrievable, whatever
\* is put and got afterwards, until a clear without preserve.
C4_PinnedNeverEvicted ==
    initial_pinned # None
      => get_initial_weekly_trends_from_cache(weekly_trends_cache) = initial_pinned

C6_ExpiredIsAbsent ==
    /\ (last.op = "get_upcoming_games_from_cache" /\ last.flag) => last.val = None
    /\ Elapsed => get_upcoming_games_from_cache(upcoming_games_cache, now) = None

\* A get ran on an entry that was stored, never removed, and had expired.
C6_Witness ==
    /\ last.op = "get_upcoming_games_from_cache"
    /\ last.flag
    /\ upcoming_games_cache # <<>>
    /\ now - upcoming_put_at = ttl

\* C8: a request for the upcoming games whose query fails answers with one
\* error, leaves the cache as it was, and the next request is a miss again.
C8_FailedQueryLeavesCache ==
    /\ [][(last'.op = "get_upcoming_games" /\ last'.val = HTTP_500)
            => upcoming_games_cache' = upcoming_games_cache]_vars
    /\ []((last.op = "get_upcoming_games" /\ last.val = HTTP_500)
            => (~last.flag
                /\ get_upcoming_games_from_cache(upcoming_games_cache, now) = None))

\* The query of a miss failed while the cache still held an expired entry.
C8_Witness ==
    /\ last.op = "get_upcoming_games"
    /\ last.val = HTTP_500
    /\ upcoming_games_cache # <<>>

\* C7: a get of a protected key that begins while a preserving clear of its
\* cache is in progress, the key having been present when the clear began,
\* does not come back absent.
C7_GetDuringClearFindsEntry ==
    (pc["reader"] = "done" /\ loc["reader"].during)
      => loc["reader"].ret \notin {None, KeyError}

(***************************************************************************)
(* Properties of the key generator.                                        *)
(***************************************************************************)
\* Equality of Python values: dicts as mappings, lists as sequences.
RECURSIVE PyEq(_, _)
PyEq(a, b) ==
    /\ TypeOf(a) = TypeOf(b)
    /\ CASE TypeOf(a) = "dict" ->
             /\ DictKeys(a) = DictKeys(b)
             /\ \A name \in DictKeys(a) : PyEq(DictValue(a, name), DictValue(b, name))
         [] TypeOf(a) = "list" ->
             /\ Len(Payload(a)) = Len(Payload(b))
             /\ \A i \in 1..Len(Payload(a)) : PyEq(Payload(a)[i], Payload(b)[i])
         [] OTHER -> Payload(a) = Payload(b)

\* The number of times x occurs in the sequence l.
Count(l, x) == Cardinality({i \in 1..Len(l) : l[i] = x})

\* Equality of Python values up to the order of the elements of their lists.
RECURSIVE PyEqUnordered(_, _)
PyEqUnordered(a, b) ==
    /\ TypeOf(a) = TypeOf(b)
    /\ CASE TypeOf(a) = "dict" ->
             /\ DictKeys(a) = DictKeys(b)
             /\ \A name \in DictKeys(a) :
                   PyEqUnordered(DictValue(a, name), DictValue(b, name))
         [] TypeOf(a) = "list" ->
             /\ Len(Payload(a)) = Len(Payload(b))
             /\ \A i \in 1..Len(Payload(a)) :
                   Count(Payload(a), Payload(a)[i]) = Count(Payload(b), Payload(a)[i])
         [] OTHER -> Payload(a) = Payload(b)

Generated == key1 # "" /\ key2 # ""

\* C9: two documents with the same fields and the same values get the same
\* key, whatever the insertion order of their fields, nested ones included.
C9_KeyIgnoresInsertionOrder ==
    (Generated /\ PyEq(doc1, doc2)) => key1 = key2

\* Two documents of three fields, equal as mappings, inserted in different
\* orders at the top level and inside spread.
C9_Witness ==
    /\ Generated
    /\ PyEq(doc1, doc2)
    /\ Len(Payload(doc1)) = 3
    /\ Payload(doc1)[1][1] # Payload(doc2)[1][1]
    /\ DictValue(doc1, "spread") # DictValue(doc2, "spread")
    /\ key1 = key2

AsList(x) == IF TypeOf(x) \in {"str", "int"} THEN PyList(<<x>>) ELSE x

\* Two filter documents denote the same filter: the same fields, each with
\* the same value, a scalar v and the list [v] being the same selection.
RECURSIVE SameFilter(_, _)
SameFilter(a, b) ==
    IF TypeOf(a) = "dict" /\ TypeOf(b) = "dict"
    THEN /\ DictKeys(a) = DictKeys(b)
         /\ \A name \in DictKeys(a) :
               SameFilter(DictValue(a, name), DictValue(b, name))
    ELSE IF TypeOf(a) = "list" \/ TypeOf(b) = "list"
    THEN PyEq(AsList(a), AsList(b))
    ELSE PyEq(a, b)

\* C11: two documents get the same key if and only if they denote the same
\* filter.
C11_KeyIffSameFilter ==
    Generated => (key1 = key2 <=> SameFilter(doc1, doc2))

(***************************************************************************)
(* Properties of the queries.                                              *)
(***************************************************************************)
\* The table the last query read.
QueryTable == IF qlast.endpoint = "games" THEN games_table ELSE trends_table

GamesAsked(filters) == qlast.endpoint = "games" /\ qlast.filters = filters

TrendsAsked(filters) == qlast.endpoint = "trends" /\ qlast.filters = filters

\* C12: with the same two teams given as home_team and as away_team, a game
\* matches when the two teams play each other, either one at home, and does
\* not match when one of its teams is a third team; the same for the
\* abbreviations.
C12_SameListsMatchBothDirections ==
    /\ GamesAsked([NoGameFilters EXCEPT
                     !.home_team = PyList(<<PyStr("Chicago Bears"), PyStr("New York Jets")>>),
                     !.away_team = PyList(<<PyStr("Chicago Bears"), PyStr("New York Jets")>>)])
         => qlast.matched =
              {row \in games_table :
                 /\ row.home_team \in {"Chicago Bears", "New York Jets"}
                 /\ row.away_team \in {"Chicago Bears", "New York Jets"}}
    /\ GamesAsked([NoGameFilters EXCEPT
                     !.home_abbreviation = PyList(<<PyStr("CHI"), PyStr("NYJ")>>),
                     !.away_abbreviation = PyList(<<PyStr("CHI"), PyStr("NYJ")>>)])
         => qlast.matched =
              {row \in games_table :
                 /\ row.home_abbreviation \in {"CHI", "NYJ"}
                 /\ row.away_abbreviation \in {"CHI", "NYJ"}}

\* The two teams were asked for on both sides of a table that holds their two
\* games and a game of one of them against a third team.
C12_Witness ==
    /\ GamesAsked([NoGameFilters EXCEPT
                     !.home_team = PyList(<<PyStr("Chicago Bears"), PyStr("New York Jets")>>),
                     !.away_team = PyList(<<PyStr("Chicago Bears"), PyStr("New York Jets")>>)])
    /\ {row.id_string : row \in games_table}
         = {"CHINYJ20240107", "NYJCHI20241110", "CHIBUF20250209"}
    /\ {row.id_string : row \in qlast.matched} = {"CHINYJ20240107", "NYJCHI20241110"}
    /\ qlast.resp.total_count = 2

\* C13: home_team=A with away_team=B, A and B distinct, matches exactly the
\* games with A at home and B away.
C13_SingletonsMatchOneDirection ==
    \A a, b \in {"Chicago Bears", "New York Jets"} :
       (a # b /\ GamesAsked([NoGameFilters EXCEPT !.home_team = PyStr(a),
                                                  !.away_team = PyStr(b)]))
         => qlast.matched =
              {row \in games_table : row.home_team = a /\ row.away_team = b}

\* One team at home and the other away were asked for on a table that holds
\* their games in both directions.
C13_Witness ==
    /\ GamesAsked([NoGameFilters EXCEPT !.home_team = PyStr("Chicago Bears"),
                                        !.away_team = PyStr("New York Jets")])
    /\ {"CHINYJ20240107", "NYJCHI20241110"} \subseteq {row.id_string : row \in games_table}
    /\ {row.id_string : row \in qlast.matched} = {"CHINYJ20240107"}

\* C14: the month range from November to February matches no row, of games
\* and of trends.
C14_MonthRangeDoesNotWrap ==
    (/\ qlast.endpoint \in {"games", "trends"}
     /\ qlast.filters.month = PyNone
     /\ qlast.filters.start_month = PyStr("November")
     /\ qlast.filters.end_month = PyStr("February"))
      => qlast.matched = {}

\* The range from November to February was asked for on a table with rows of
\* November, of January and of February.
C14_Witness ==
    /\ qlast.endpoint = "trends"
    /\ qlast.filters.month = PyNone
    /\ qlast.filters.start_month = PyStr("November")
    /\ qlast.filters.end_month = PyStr("February")
    /\ {row.month : row \in trends_table} = {"November", "January", "February"}
    /\ qlast.matched = {}

\* C15: a row whose month is NULL does not match a month range, whichever
\* bounds are given, in games and in trends.
C15_NullMonthOutsideRanges ==
    (/\ qlast.endpoint \in {"games", "trends"}
     /\ qlast.filters.month = PyNone
     /\ Truthy(qlast.filters.start_month) \/ Truthy(qlast.filters.end_month))
      => \A row \in qlast.matched : row.month # NULL

\* The months a month filter names select the row; "None" names NULL.
MonthSelected(month, row) ==
    LET names == IF TypeOf(month) = "str" THEN {Payload(month)}
                 ELSE Strings(Payload(month))
    IN  IF row.month = NULL THEN "None" \in names ELSE row.month \in names

\* The row's month is not NULL and lies within the bounds given.
MonthInRange(start_month, end_month, row) ==
    /\ row.month # NULL
    /\ Truthy(start_month) =>
          MONTH_MAPPING[row.month] >= MONTH_MAPPING[Payload(start_month)]
    /\ Truthy(end_month) =>
          MONTH_MAPPING[row.month] <= MONTH_MAPPING[Payload(end_month)]

\* C16: with a month filter and a month range together, a row matches if and
\* only if the filter selects it or it lies in the range, in games and in
\* trends.
C16_MonthFilterOrRange ==
    (/\ qlast.endpoint \in {"games", "trends"}
     /\ Truthy(qlast.filters.month)
     /\ Truthy(qlast.filters.start_month) \/ Truthy(qlast.filters.end_month))
      => qlast.matched =
           {row \in QueryTable :
              \/ MonthSelected(qlast.filters.month, row)
              \/ MonthInRange(qlast.filters.start_month, qlast.filters.end_month, row)}

\* C17: the trends spread filter exact=["None", x] matches exactly the rows
\* whose spread is NULL or x, and an exact list of "None" alone exactly the
\* rows whose spread is NULL; the same for total.
C17_ExactWithNoneSentinel ==
    /\ TrendsAsked([NoTrendFilters EXCEPT !.spread =
           PyDict(<< <<"exact", PyList(<<PyStr("None"), PyStr("3.0")>>)>> >>)])
         => qlast.matched =
              {row \in trends_table : row.spread = NULL \/ row.spread = "3.0"}
    /\ TrendsAsked([NoTrendFilters EXCEPT !.spread =
           PyDict(<< <<"exact", PyList(<<PyStr("None")>>)>> >>)])
         => qlast.matched = {row \in trends_table : row.spread = NULL}
    /\ TrendsAsked([NoTrendFilters EXCEPT !.total =
           PyDict(<< <<"exact", PyList(<<PyStr("None"), PyStr("40 or less")>>)>> >>)])
         => qlast.matched =
              {row \in trends_table : row.total = NULL \/ row.total = "40 or less"}
    /\ TrendsAsked([NoTrendFilters EXCEPT !.total =
           PyDict(<< <<"exact", PyList(<<PyStr("None"), PyStr("None")>>)>> >>)])
         => qlast.matched = {row \in trends_table : row.total = NULL}

\* exact=["None", "3.0"] was asked for on a table with a row of spread 3.0,
\* one of NULL and one of 7.0.
C17_Witness ==
    /\ TrendsAsked([NoTrendFilters EXCEPT !.spread =
           PyDict(<< <<"exact", PyList(<<PyStr("None"), PyStr("3.0")>>)>> >>)])
    /\ {row.spread : row \in trends_table} = {"3.0", NULL, "7.0"}
    /\ {row.spread : row \in qlast.matched} = {"3.0", NULL}

\* The responses the last request may get with another limit and sort_by.
ResponsesWith(limit, sort_by) ==
    IF qlast.endpoint = "games"
    THEN get_games([qlast.filters EXCEPT !.limit = limit, !.sort_by = sort_by],
                   games_table)
    ELSE get_trends([qlast.filters EXCEPT !.limit = limit, !.sort_by = sort_by],
                    trends_table)

ReportsTotal(resp) == resp.status = HTTP_200 /\ "total_count" \in resp.keys

\* C18: the total_count a response reports is the number of rows of the table
\* that match the filters, and the same request with any other valid limit
\* and any sort_by reports the same total_count.
C18_TotalCountIgnoresLimitAndSort ==
    (qlast.endpoint \in {"games", "trends"} /\ ReportsTotal(qlast.resp))
      => /\ qlast.resp.total_count = Cardinality(qlast.matched)
         /\ \A limit \in QueryLimits :
              \A sort_by \in (IF qlast.endpoint = "games" THEN GameSorts ELSE TrendSorts) :
                \A other \in ResponsesWith(limit, sort_by) :
                   ReportsTotal(other) => other.total_count = qlast.resp.total_count

\* A request with limit=1 got one row of the three that match.
C18_Witness ==
    /\ qlast.endpoint = "trends"
    /\ qlast.filters.limit = PyInt(1)
    /\ ReportsTotal(qlast.resp)
    /\ qlast.resp.count = 1
    /\ qlast.resp.total_count = 3
    /\ \E other \in ResponsesWith(PyInt(100), qlast.filters.sort_by) : other.count = 3

\* C19: a successful query answers with limit, offset, count, total_count and
\* results, count being the number of rows in results and total_count the
\* number of rows that match, also when the page is empty.
C19_ResponseStructure ==
    (qlast.endpoint \in {"games", "trends"} /\ qlast.resp.status = HTTP_200)
      => /\ qlast.resp.keys = ResponseKeys
         /\ qlast.resp.count = Len(qlast.resp.results)
         /\ qlast.resp.total_count = Cardinality(qlast.matched)

\* C20: when sort_by is absent, null or an empty list, the results come in the
\* default order of the endpoint.
C20_DefaultOrderWithoutSort ==
    (/\ qlast.endpoint \in {"games", "trends"}
     /\ qlast.resp.status = HTTP_200
     /\ qlast.filters.sort_by \in {Absent, PyNone, PyList(<<>>)})
      => Ordered(qlast.resp.results,
                 IF qlast.endpoint = "games" THEN GameDefaultSort ELSE TrendDefaultSort)

\* C21: a request that passes the validation of the filter model and whose
\* sort_by names a field that is not a column is answered with status 400 and
\* a detail naming that field, and no statement was executed on the store
\* for it.
C21_InvalidSortFieldBeforeStore ==
    (/\ qlast.endpoint \in {"games", "trends"}
     /\ qlast.resp.status # HTTP_422
     /\ qlast.filters.sort_by \in {PyStr("kickoff"), PyStr("record")})
      => /\ qlast.resp.status = HTTP_400
         /\ qlast.resp.detail = Payload(qlast.filters.sort_by)
         /\ qlast.resp.executed = <<>>

\* The value is absent, or a number, or a list of numbers, each within 0..27
\* on the grid of halves.
OnSpreadGrid(x) ==
    LET tenths(n) == IF TypeOf(n) = "int" THEN 10 * Payload(n) ELSE Payload(n)
        good(n) == /\ TypeOf(n) \in {"int", "float"}
                   /\ 0 <= tenths(n) /\ tenths(n) <= 270 /\ tenths(n) % 5 = 0
    IN  \/ x = PyNone
        \/ good(x)
        \/ TypeOf(x) = "list" /\ \A i \in 1..Len(Payload(x)) : good(Payload(x)[i])

\* C22: GameFilter accepts a request only if each of spread, min_spread and
\* max_spread, scalar or list element, lies within 0..27 on the grid of
\* halves; a request with any other number there is rejected.
C22_SpreadOnlyOnGrid ==
    (qlast.endpoint = "games" /\ qlast.resp.status # HTTP_422)
      => /\ OnSpreadGrid(qlast.filters.spread)
         /\ OnSpreadGrid(qlast.filters.min_spread)
         /\ OnSpreadGrid(qlast.filters.max_spread)

\* The rows whose column passes an exact value or list and two bounds, each
\* applied when it is not None.
Within(table, col, exact, min, max) ==
    {row \in table :
        /\ exact # PyNone =>
              row[col] \in (IF TypeOf(exact) = "list" THEN Numbers(Payload(exact))
                            ELSE {Payload(exact)})
        /\ min # PyNone => row[col] >= Payload(min)
        /\ max # PyNone => row[col] <= Payload(max)}

\* C24: in get_games a numeric filter of 0 is applied like any other value:
\* the rows matched are those that pass every exact value and every bound
\* that was given.
C24_ZeroIsAFilter ==
    (/\ qlast.endpoint = "games"
     /\ qlast.resp.status # HTTP_422
     /\ \E f \in {"home_score", "min_home_score", "max_home_score", "spread",
                  "min_spread", "max_spread", "home_spread_result",
                  "min_home_spread_result", "max_home_spread_result"} :
           qlast.filters[f] \in {PyInt(0), PyFloat(0)})
      => LET filters == GameFilter(qlast.filters).value
         IN  qlast.matched =
               Within(games_table, "home_score", filters.home_score,
                      filters.min_home_score, filters.max_home_score)
                 \cap Within(games_table, "spread", filters.spread,
                             filters.min_spread, filters.max_spread)
                 \cap Within(games_table, "home_spread_result",
                             filters.home_spread_result,
                             filters.min_home_spread_result,
                             filters.max_home_spread_result)

\* C25: a side given as a list that repeats one team resolves like the single
\* team: one home team and a different away team match only the games with
\* that home team and that away team.
C25_MatchupBySetNotLength ==
    (/\ qlast.endpoint = "games"
     /\ qlast.resp.status # HTTP_422
     /\ qlast.filters.home_team # PyNone
     /\ qlast.filters.away_team # PyNone)
      => LET filters == GameFilter(qlast.filters).value
             home == Strings(normalize_to_list(filters.home_team))
             away == Strings(normalize_to_list(filters.away_team))
         IN  (Cardinality(home) = 1 /\ Cardinality(away) = 1 /\ home # away)
               => qlast.matched =
                    {row \in games_table : row.home_team \in home /\ row.away_team \in away}

\* The enum member a string equals but for the case of its letters.
CanonicalCase(s) ==
    CASE s \in {"january", "JANUARY"} -> "January"
      [] s = "none" -> "None"
      [] s \in {"chi", "Chi"} -> "CHI"
      [] s = "nyj" -> "NYJ"
      [] s \in {"Home ATS", "HOME ATS"} -> "home ats"
      [] s = "OVER" -> "over"
      [] s = "CHICAGO BEARS" -> "Chicago Bears"
      [] OTHER -> s

Canonical(value) ==
    IF TypeOf(value) = "str" THEN PyStr(CanonicalCase(Payload(value)))
    ELSE IF TypeOf(value) = "list"
    THEN PyList([i \in 1..Len(Payload(value)) |->
                   PyStr(CanonicalCase(Payload(Payload(value)[i])))])
    ELSE value

EnumFields ==
    {"category", "month", "start_month", "end_month", "home_team", "away_team",
     "home_abbreviation", "away_abbreviation"}

\* The last request with every enum-valued string in its canonical casing.
CanonicalRequest ==
    [f \in DOMAIN qlast.filters |->
       IF f \in EnumFields THEN Canonical(qlast.filters[f]) ELSE qlast.filters[f]]

\* C23: a request that passes validation selects the rows that the same
\* request selects with every enum-valued string, scalar or list element,
\* written in the canonical casing of its enum.
C23_EnumCaseFolded ==
    (qlast.endpoint \in {"games", "trends"} /\ qlast.resp.status # HTTP_422)
      => qlast.matched =
           (IF qlast.endpoint = "games"
            THEN GameMatched(GameFilter(CanonicalRequest).value, games_table)
            ELSE TrendMatched(TrendFilter(CanonicalRequest).value, trends_table))

\* The position of a season among VALID_SEASONS.
SeasonOf(row) == SeasonIndex(row.seasons)

\* C26: in get_trends a seasons filter with since_or_later and
\* since_or_earlier and no exact list matches the rows whose season lies
\* between the two, both included, and no row when the first is later than
\* the second.
C26_SeasonRangeInclusive ==
    (/\ qlast.endpoint = "trends"
     /\ qlast.resp.status # HTTP_422
     /\ TypeOf(qlast.filters.seasons) = "dict"
     /\ DictKeys(qlast.filters.seasons) = {"since_or_later", "since_or_earlier"}
     /\ qlast.filters.category = PyNone)
      => qlast.matched =
           {row \in trends_table :
              /\ SeasonIndex(Payload(DictValue(qlast.filters.seasons, "since_or_later")))
                   <= SeasonOf(row)
              /\ SeasonOf(row)
                   <= SeasonIndex(Payload(DictValue(qlast.filters.seasons,
                                                    "since_or_earlier")))}

(***************************************************************************)
(* Properties of the caches, continued.                                    *)
(***************************************************************************)
\* The keys of a cache other than key, least recently used first.
OtherKeysInOrder(c, key) ==
    LET others == SelectSeq(c, LAMBDA e : e.k # key)
    IN  [i \in 1..Len(others) |-> others[i].k]

WeeklyPutOps == {"set_weekly_trends_cache", "set_initial_weekly_trends_cache"}

WeeklyGetOps == {"get_weekly_trends_from_cache", "get_initial_weekly_trends_from_cache"}

\* C27: weekly_trends_cache never holds more than its capacity; a put of a
\* new key into the full cache removes exactly the key used least recently;
\* a get that hits and a put both make their key the most recently used and
\* leave the order of the other keys as it was. (A step that only lets time
\* pass keeps the record of the operation before it.)
C27_LruBoundAndEviction ==
    [][LET c == weekly_trends_cache
           key == last'.key
       IN  /\ LruSize(c') <= LruMaxSize
           /\ (now' = now /\ last'.op \in WeeklyPutOps /\ last'.flag)
                 => /\ LruKeys(c') = (LruKeys(c) \ {Head(c).k}) \cup {key}
                    /\ OtherKeysInOrder(c', key) = Tail(OtherKeysInOrder(c, key))
           /\ (now' = now /\ last'.op \in WeeklyPutOps /\ ~last'.flag)
                 => /\ LruKeys(c') = LruKeys(c) \cup {key}
                    /\ OtherKeysInOrder(c', key) = OtherKeysInOrder(c, key)
           /\ (last'.op \in WeeklyPutOps \cup WeeklyGetOps /\ LruContains(c', key))
                 => c'[Len(c')].k = key
           /\ (last'.op \in WeeklyGetOps)
                 => /\ LruKeys(c') = LruKeys(c)
                    /\ OtherKeysInOrder(c', key) = OtherKeysInOrder(c, key)
      ]_vars

\* A put of the new key k3 has just evicted from the full cache, and k1 was
\* not the key used least recently.
C27_Witness ==
    /\ last.op = "set_weekly_trends_cache"
    /\ last.flag
    /\ last.key = "k3"
    /\ LruSize(weekly_trends_cache) = LruMaxSize
    /\ weekly_trends_cache[Len(weekly_trends_cache)].k = "k3"
    /\ LruContains(weekly_trends_cache, "k1")

\* C28: a clear of upcoming_games_cache that preserves the default entry
\* stores it again, so that it is returned until one expiry interval after
\* the clear and no longer; when the entry had expired before the clear,
\* the clear leaves the cache empty.
C28_ClearRestartsExpiry ==
    [][(/\ now' = now
        /\ last'.op \in {"clear_upcoming_games_cache", "clear_all_caches"}
        /\ last'.flag)
         => LET held == get_upcoming_games_from_cache(upcoming_games_cache, now)
            IN  IF held # None
                THEN /\ \A t \in {now, now + TickStep, now + ttl - 1} :
                          get_upcoming_games_from_cache(upcoming_games_cache', t) = held
                     /\ get_upcoming_games_from_cache(upcoming_games_cache', now + ttl)
                          = None
                ELSE upcoming_games_cache' = <<>>
      ]_vars

\* The default entry is returned a full interval after the start, because a
\* preserving clear stored it again half an interval ago.
C28_Witness ==
    /\ last.op = "clear_upcoming_games_cache"
    /\ last.flag
    /\ last.val # None
    /\ now = ttl
    /\ get_upcoming_games_from_cache(upcoming_games_cache, now) = last.val
    /\ \E i \in 1..Len(upcoming_games_cache) :
         upcoming_games_cache[i].expires = now + TickStep

\* C29: a put on a protected key made by another thread while a preserving
\* clear of its cache is in progress is not lost: when the clear has
\* finished, the key holds the value of that put.
C29_PutDuringClearNotLost ==
    (pc["clearer"] = "idle" /\ loc["writer"].during)
      => ProtectedValue(loc["writer"].cache) = loc["writer"].data

(***************************************************************************)
(* Properties of the subscription handlers.                                *)
(***************************************************************************)
\* The row of the address a request names, <<>> when there is none.
SubscriptionRow(table, raw) ==
    LET i == FirstSubscription(table, validate_email(raw).value)
    IN  IF i = 0 THEN <<>> ELSE <<table[i]>>

HasActive(table, raw) ==
    /\ validate_email(raw).ok
    /\ SubscriptionRow(table, raw) # <<>>
    /\ SubscriptionRow(table, raw)[1].is_active

Unknown(table, raw) ==
    /\ validate_email(raw).ok
    /\ SubscriptionRow(table, raw) = <<>>

\* C30: subscribe_email for an address that has an active subscription
\* answers 409 and leaves the table as it was, and unsubscribe_email for an
\* address with no row answers 404 and leaves the table as it was.
C30_ConflictAndNotFound ==
    [][/\ (/\ SubscribeEmail
           /\ HasActive(email_subscriptions, elast'.email))
          => (/\ elast'.status_code = HTTP_409
              /\ email_subscriptions' = email_subscriptions)
       /\ (/\ UnsubscribeEmail
           /\ Unknown(email_subscriptions, elast'.email))
          => (/\ elast'.status_code = HTTP_404
              /\ email_subscriptions' = email_subscriptions)]_vars

====
